---- MODULE Spec2Model ----
(***************************************************************************)
(* Geospatial scene assembly: the scene descriptor store                    *)
(* (SceneXMLUpdater) and the assembly orchestrator (SceneBuilder.generate). *)
(*                                                                          *)
(* The scene descriptor (scene.xml) is a sequence of shape elements in      *)
(* document order.  A shape element is a record                             *)
(*   [id, filename, bsdf, depth]                                            *)
(* depth = 1 is a direct child of the root element, depth = 2 a shape       *)
(* nested in a container element (the container itself carries no           *)
(* filename, so it is never removed).  filename = None is a shape without   *)
(* a <string name="filename"> child, bsdf = None a shape without a          *)
(* <ref name="bsdf"> child.                                                 *)
(***************************************************************************)
EXTENDS Integers, Sequences, FiniteSets, TLC

\* ------------------------------------------------------------------ bounds
\* Longest descriptor drawn as the initial document of the updater.
MaxInit == 2

\* ------------------------------------------------------------- value sets
None == "None"
EmptyStr == ""

Ids == <<"x", "y", "z">>
IdSet == {Ids[i] : i \in 1..Len(Ids)}
Files == {"f1", "f2"}
Mats == {"m1", "m2"}

\* Python truthiness of an Optional[str]: None and "" are falsy.
Falsy(v) == v = None \/ v = EmptyStr

Shape(id, filename, bsdf, depth) ==
    [id |-> id, filename |-> filename, bsdf |-> bsdf, depth |-> depth]

\* ------------------------------------------------------- SceneXMLUpdater
\* The id attribute of the shape element itself, not of its bsdf reference.
GetShapeOwnId(shape) == shape.id

\* _get_bsdf_id: the id of the shape's <ref name="bsdf"> child, or None.
GetBsdfId(shape) == shape.bsdf

\* The loop of remove_shapes_by_filenames over root.findall("shape"):
\* only direct children of the root are visited, in document order.
\* st = [to_remove: sequence of element positions, captured: bsdf id or None]
RECURSIVE ScanShapes(_, _, _, _)
ScanShapes(root_, filenames, i, st) ==
    IF i > Len(root_) THEN st
    ELSE LET shape == root_[i] IN
         IF shape.depth # 1 THEN ScanShapes(root_, filenames, i + 1, st)
         ELSE IF shape.filename = None THEN ScanShapes(root_, filenames, i + 1, st)
         ELSE IF shape.filename \in filenames
              THEN ScanShapes(root_, filenames, i + 1,
                       [to_remove |-> Append(st.to_remove, i),
                        captured  |-> IF Falsy(st.captured)
                                      THEN GetBsdfId(shape)
                                      ELSE st.captured])
              ELSE ScanShapes(root_, filenames, i + 1, st)

\* A removal that stops after the first of the positions to drop.
DropFirstOnly(s, drop, i) ==
    IF drop = {} THEN s
    ELSE LET f == CHOOSE j \in drop : \A k \in drop : j <= k
         IN  SubSeq(s, 1, f - 1) \o SubSeq(s, f + 1, Len(s))

\* The elements of s at the positions not in drop, in order.
RECURSIVE DropAt(_, _, _)
DropAt(s, drop, i) ==
    IF i > Len(s) THEN <<>>
    ELSE IF i \in drop THEN DropAt(s, drop, i + 1)
         ELSE <<s[i]>> \o DropAt(s, drop, i + 1)

Range(s) == {s[i] : i \in 1..Len(s)}

\* A removal that captures the material and leaves the shapes in the tree.
RemoveCaptureOnly(root_, filenames) ==
    LET st == ScanShapes(root_, filenames, 1, [to_remove |-> <<>>, captured |-> None])
    IN  [root |-> root_, ret |-> st.captured]

\* remove_shapes_by_filenames: [root |-> the tree afterwards, ret |-> returned value]
RemoveShapesByFilenames(root_, filenames) ==
    LET st == ScanShapes(root_, filenames, 1, [to_remove |-> <<>>, captured |-> None])
    IN  IF st.to_remove = <<>>
        THEN [root |-> root_, ret |-> None]
        ELSE [root |-> DropAt(root_, Range(st.to_remove), 1), ret |-> st.captured]

\* The lookup of add_mesh_shape, root.find(".//shape[@id='...']"): every
\* descendant shape, whatever its depth.
FindShapeById(root_, shape_id) ==
    \E i \in 1..Len(root_) : root_[i].id = shape_id

\* A lookup restricted to the direct children of the root.
AddMeshShapeChildLookup(root_, filename, shape_id, bsdf_id) ==
    IF \E i \in 1..Len(root_) : root_[i].depth = 1 /\ root_[i].id = shape_id
    THEN root_
    ELSE Append(root_, Shape(shape_id, filename, bsdf_id, 1))

\* An add that appends the shape without looking the id up.
AddMeshShapeNoLookup(root_, filename, shape_id, bsdf_id) ==
    Append(root_, Shape(shape_id, filename, bsdf_id, 1))

\* add_mesh_shape: the tree afterwards.
AddMeshShape(root_, filename, shape_id, bsdf_id) ==
    IF FindShapeById(root_, shape_id)
    THEN root_
    ELSE Append(root_, Shape(shape_id, filename, bsdf_id, 1))

\* SceneXMLUpdater._load: ET.parse raises FileNotFoundError when the file is
\* missing and ParseError when it is not a complete document.
LoadOk(file) == file.state = "complete"

\* The ways tree.write can end for a tree of at most n shapes.  "ok": the whole
\* document is written; "open_error": the open fails and the file is
\* untouched; "write_error": the file was opened, hence truncated, and the
\* write stopped after k shapes.
SaveOutcomes(n) ==
    {[kind |-> "ok", k |-> n], [kind |-> "open_error", k |-> 0]}
    \cup {[kind |-> "write_error", k |-> j] : j \in 0..n}

\* SceneXMLUpdater.save: tree.write(scene_path) opens the descriptor path
\* itself for writing and serialises into it; an exception is logged and
\* re-raised.  The value is the file afterwards.
Save(tree, file, outcome) ==
    CASE outcome.kind = "ok"          -> [state |-> "complete", nodes |-> tree]
      [] outcome.kind = "open_error"  -> file
      [] outcome.kind = "write_error" ->
             [state |-> "torn",
              nodes |-> SubSeq(tree, 1, IF outcome.k > Len(tree) THEN Len(tree)
                                        ELSE outcome.k)]

\* ----------------------------------------------------------------- state
VARIABLES
    root,       \* SceneXMLUpdater.root: the parsed tree of an updater instance
    prev,       \* the tree before the last operation on the updater
    last,       \* the last operation on the updater, its arguments and result
    pc,         \* SceneBuilder.generate: the step about to run
    bbox,       \* the BoundingBox passed to generate
    outDir,     \* whether the output directory exists
    sceneXml,   \* the file <output_dir>/scene.xml: [state, nodes]
    meshFiles,  \* the names of the files in <output_dir>/mesh
    heightCb,   \* the height callback handed to the later stages
    stagesRun,  \* the steps of generate started so far, in order
    failures,   \* every failure so far, swallowed or not: [stage, what]
    errors,     \* the exceptions generate raised to its caller
    io,         \* the file-system and network accesses made so far
    commits,    \* the stages whose updater.save() wrote the descriptor
    baseDoc,    \* the descriptor as the base-geometry stage produced it
    terrainRec, \* what _process_terrain did in this run
    bld,        \* what _optimize_buildings did in this run
    placed,     \* how each category's features were placed vertically
    firstRun,   \* the end of the first run of the enrichment stages, if rerun
    cacheDir,   \* whether the DEM cache directory exists
    cache,      \* the file at each cache path: [exists, written, body]
    dpc,        \* DemDownloader.fetch: the step about to run
    dcur,       \* the fetch in progress: its bbox, path and response
    calls,      \* the fetch calls that ended, in order
    fbbox,      \* the bounding box the terrain and the telecom features share
    gdf,        \* the telecom features the feature service returned (points)
    terrainCrs, \* the projected system generate_terrain_mesh chose
    telecomCrs, \* the projected system _process_gdf chose
    elevation_data, \* the elevation grid passed to generate_terrain_mesh (rows)
    origin,     \* its mesh_origin: a point, or None
    tmesh,      \* its result: the vertices' z in vertex order, and ref_elev
    catalog,    \* _MATERIALS_LIST: the names of the material catalog
    midx,       \* the index resolve_material was called with
    mret,       \* what resolve_material returned
    utm,        \* a call of _get_utm_crs: its arguments and the code returned
    trip,       \* a point taken to local coordinates and back
    ring,       \* a call of BoundingBox.polygon_points: the box and the ring
    rows,       \* the rows of the GeoDataFrame features_from_bbox returned
    transmitters, \* TelecomManager.transmitters: the ids, in order
    txMesh,     \* what get_mesh returned: the transmitters it holds
    tkpc,       \* the TelecomManager call about to run
    tkError,    \* whether fetch_and_process logged a failure
    mergeFiles, \* the mesh files merge_meshes is called on, in order
    merged,     \* what merge_meshes returned and the mesh it exported
    task_queue, \* BridgeService.task_queue: the items put and not yet got
    worker,     \* where the worker process is
    mpc,        \* where the main process of the bridge is
    lastMsg     \* the last message _on_message handled, and what it did

uvars == <<root, prev, last>>

dvars == <<cacheDir, cache, dpc, dcur, calls>>

pvars == <<pc, bbox, outDir, sceneXml, meshFiles, heightCb, stagesRun,
           failures, errors, io, commits, baseDoc, terrainRec, bld, placed,
           firstRun>>

\* The variables of the components other than the updater and the pipeline.
fvars == <<fbbox, gdf, terrainCrs, telecomCrs>>

tvars == <<elevation_data, origin, tmesh>>

mvars == <<catalog, midx, mret>>

gvars == <<utm, trip, ring>>

\* The variables of the components added after the material catalog.
kvars == <<rows, transmitters, txMesh, tkpc, tkError>>

cvars == <<mergeFiles, merged>>

bvars == <<task_queue, worker, mpc, lastMsg>>

yvars == <<gvars, kvars, cvars, bvars>>

xvars == <<dvars, fvars, tvars, mvars, yvars>>

notUpdaterVars == <<pvars, xvars>>

notDemVars == <<uvars, pvars, fvars, tvars, mvars, yvars>>

notFramesVars == <<uvars, pvars, dvars, tvars, mvars, yvars>>

notTerrainVars == <<uvars, pvars, dvars, fvars, mvars, yvars>>

notMaterialVars == <<uvars, pvars, dvars, fvars, tvars, yvars>>

notGeometryVars ==
    <<uvars, pvars, dvars, fvars, tvars, mvars, kvars, cvars, bvars>>

notTelecomVars ==
    <<uvars, pvars, dvars, fvars, tvars, mvars, gvars, cvars, bvars>>

notMergeVars ==
    <<uvars, pvars, dvars, fvars, tvars, mvars, gvars, kvars, bvars>>

notBridgeVars ==
    <<uvars, pvars, dvars, fvars, tvars, mvars, gvars, kvars, cvars>>

notPipelineVars == <<uvars, xvars>>

vars == <<uvars, pvars, xvars>>

Op(op, filenames, filename, shape_id, bsdf_id, ret) ==
    [op |-> op, filenames |-> filenames, filename |-> filename,
     shape_id |-> shape_id, bsdf_id |-> bsdf_id, ret |-> ret]

NoFile == [state |-> "missing", nodes |-> <<>>]

NoTerrainRec == [status |-> "notrun", ground_bsdf |-> None, pre |-> NoFile]

NoBld ==
    [ran |-> FALSE, wall_files |-> {}, rooftop_files |-> {},
     walls_merged |-> FALSE, rooftops_merged |-> FALSE,
     wall_bsdf_id |-> None, rooftop_bsdf_id |-> None,
     pre |-> NoFile, preFiles |-> {}]

NotPlaced == [buildings |-> "none", infrastructure |-> "none"]

NoFirstRun ==
    [ran |-> FALSE, nodes |-> <<>>, meshFiles |-> {}, failures |-> <<>>,
     placed |-> NotPlaced, terrain |-> "notrun"]

\* The orchestrator's variables before generate is called.
PipelineIdle ==
    /\ pc = "Idle"
    /\ bbox = [min_lon |-> 0, min_lat |-> 0, max_lon |-> 1, max_lat |-> 1]
    /\ outDir = FALSE
    /\ sceneXml = NoFile
    /\ meshFiles = {}
    /\ heightCb = "unset"
    /\ stagesRun = <<>>
    /\ failures = <<>>
    /\ errors = <<>>
    /\ io = {}
    /\ commits = <<>>
    /\ baseDoc = <<>>
    /\ terrainRec = NoTerrainRec
    /\ bld = NoBld
    /\ placed = NotPlaced
    /\ firstRun = NoFirstRun

\* The updater's variables when no updater instance exists.
UpdaterIdle ==
    /\ root = <<>>
    /\ prev = <<>>
    /\ last = Op("load", {}, None, None, None, None)

NoFetch == [bbox |-> <<>>, path |-> None, resp |-> "none"]

\* The downloader's variables before a DemDownloader is constructed.
DemIdle ==
    /\ cacheDir = FALSE
    /\ cache = <<>>
    /\ dpc = "Off"
    /\ dcur = NoFetch
    /\ calls = <<>>

\* The coordinate frames before any geometry is produced.
FramesIdle ==
    /\ fbbox = [min_lon |-> 0, min_lat |-> 0, max_lon |-> 0, max_lat |-> 0]
    /\ gdf = {}
    /\ terrainCrs = None
    /\ telecomCrs = None

\* mesh_origin = None
NoOrigin == [given |-> FALSE, x |-> 0, y |-> 0]

\* generate_terrain_mesh has not returned.
NoMesh == [done |-> FALSE, zs |-> <<>>, ref_elev |-> 0]

\* No terrain mesh has been asked for.
TerrainIdle ==
    /\ elevation_data = <<>>
    /\ origin = NoOrigin
    /\ tmesh = NoMesh

\* No material has been resolved.
MaterialIdle ==
    /\ catalog = <<>>
    /\ midx = 0
    /\ mret = None

NoUtm == [called |-> FALSE, lon |-> 0, lat |-> 0, crs |-> ""]

NoPoint == [lon |-> 0, lat |-> 0]

NoTrip ==
    [called |-> FALSE, origin |-> NoPoint, point |-> NoPoint,
     local |-> [x |-> 0, y |-> 0], back |-> NoPoint]

NoRing ==
    [called |-> FALSE,
     bbox |-> [min_lon |-> 0, min_lat |-> 0, max_lon |-> 0, max_lat |-> 0],
     points |-> <<>>]

\* No geometry helper has been called.
GeometryIdle ==
    /\ utm = NoUtm
    /\ trip = NoTrip
    /\ ring = NoRing

\* The later components' variables while they are not in use.
NoTxMesh == [ret |-> "not called", parts |-> <<>>]

\* No telecom manager is in use.
TelecomIdle ==
    /\ rows = <<>>
    /\ transmitters = <<>>
    /\ txMesh = NoTxMesh
    /\ tkpc = "idle"
    /\ tkError = FALSE

EmptyMesh == [vertices |-> <<>>, faces |-> <<>>]

NoMerged ==
    [called |-> FALSE, ret |-> FALSE, exported |-> FALSE, mesh |-> EmptyMesh,
     callback |-> "null"]

\* merge_meshes has not been called.
MergeIdle ==
    /\ mergeFiles = <<>>
    /\ merged = NoMerged

NoMessage ==
    [kind |-> "none", position |-> None, orientation |-> None,
     did |-> "none", before |-> <<>>]

\* No bridge service exists.
BridgeIdle ==
    /\ task_queue = <<>>
    /\ worker = "none"
    /\ mpc = "none"
    /\ lastMsg = NoMessage

LaterIdle == GeometryIdle /\ TelecomIdle /\ MergeIdle /\ BridgeIdle

\* The other components' variables while they are not in use.
OthersIdle ==
    DemIdle /\ FramesIdle /\ TerrainIdle /\ MaterialIdle /\ LaterIdle

ShapeKinds ==
    {<<f, b, d>> : f \in Files \cup {None}, b \in Mats \cup {None}, d \in {1, 2}}

\* The documents an updater may load: at most MaxInit shapes, ids unique
\* (the i-th shape carries the i-th id).
InitDocs ==
    UNION {
      { [i \in 1..n |-> Shape(Ids[i], k[i][1], k[i][2], k[i][3])] :
            k \in [1..n -> ShapeKinds] }
      : n \in 0..MaxInit }

\* SceneXMLUpdater(scene_path): _load parses the file into the tree.
UpdaterInit ==
    /\ root \in InitDocs
    /\ prev = root
    /\ last = Op("load", {}, None, None, None, None)
    /\ PipelineIdle
    /\ OthersIdle

DoAddMeshShape ==
    \E f \in Files, id \in IdSet, b \in Mats :
        /\ root' = AddMeshShape(root, f, id, b)
        /\ prev' = root
        /\ last' = Op("add", {}, f, id, b, None)
        /\ UNCHANGED notUpdaterVars

DoRemoveShapes ==
    \E fs \in SUBSET Files :
        LET r == RemoveShapesByFilenames(root, fs) IN
        /\ root' = r.root
        /\ prev' = root
        /\ last' = Op("remove", fs, None, None, None, r.ret)
        /\ UNCHANGED notUpdaterVars

UpdaterNext == DoAddMeshShape \/ DoRemoveShapes

SpecUpdater == UpdaterInit /\ [][UpdaterNext]_vars

\* --------------------------------------------------- claims on the updater
UniqueIds(d) == \A i, j \in 1..Len(d) : d[i].id = d[j].id => i = j

CountId(d, id) == Cardinality({i \in 1..Len(d) : d[i].id = id})

\* C7: add_mesh_shape keeps shape ids unique and is idempotent.  After any
\* sequence of add_mesh_shape and remove_shapes_by_filenames calls on a
\* descriptor whose ids were unique, no two shapes share an id; after
\* add_mesh_shape(.., x, ..) exactly one shape has id x, a second identical
\* call changes nothing, and a call whose id was already present left the
\* descriptor as it was, whatever filename and material it passed.
C7_AddIdempotentUniqueIds ==
    /\ UniqueIds(root)
    /\ last.op = "add" =>
         /\ CountId(root, last.shape_id) = 1
         /\ CountId(prev, last.shape_id) >= 1 => root = prev
         /\ AddMeshShape(root, last.filename, last.shape_id, last.bsdf_id) = root

\* C7 witness: an add whose id was already carried by a shape with another
\* filename and another material, which left the descriptor unchanged.
C7_Witness ==
    /\ last.op = "add"
    /\ root = prev
    /\ \E i \in 1..Len(prev) :
         /\ prev[i].id = last.shape_id
         /\ prev[i].filename # last.filename
         /\ prev[i].bsdf # last.bsdf_id

\* The positions of the shapes remove_shapes_by_filenames matches: the
\* children of the root whose filename is in the set.
Matched(d, filenames) ==
    {i \in 1..Len(d) : d[i].depth = 1 /\ d[i].filename \in filenames}

MinOf(S) == CHOOSE m \in S : \A n \in S : m <= n

\* C8: whenever at least one shape matches, remove_shapes_by_filenames
\* returns the material reference carried by the first matched shape in
\* document order (none when that shape carries none), whatever the later
\* matched shapes carry.
C8_ReturnsFirstMatchedMaterial ==
    (last.op = "remove" /\ Matched(prev, last.filenames) # {}) =>
        last.ret = prev[MinOf(Matched(prev, last.filenames))].bsdf

\* C8: a removal that matched more than one shape.
C8_Witness ==
    /\ last.op = "remove"
    /\ Cardinality(Matched(prev, last.filenames)) >= 2

Keep(d, filenames) == SelectSeq(d, LAMBDA s : s.filename \notin filenames)

\* C9: remove_shapes_by_filenames removes every shape of the descriptor
\* whose filename is in the set, at whatever depth add_mesh_shape's lookup
\* finds shapes, and leaves the other shapes unchanged and in order; when no
\* shape matches it returns none and leaves the descriptor unchanged.
C9_RemovesEveryMatchingShape ==
    last.op = "remove" =>
        /\ root = Keep(prev, last.filenames)
        /\ (\A i \in 1..Len(prev) : prev[i].filename \notin last.filenames)
              => (last.ret = None /\ root = prev)

\* C9: a removal that matched a shape and kept another one.
C9_Witness ==
    /\ last.op = "remove"
    /\ Len(root) >= 1
    /\ Len(root) < Len(prev)

\* ------------------------------------------------ SceneBuilder.generate
\* Largest number of per-feature wall files, and of rooftop files, the base
\* geometry stage leaves in the mesh directory.
MaxFeatures == 2

\* Material bindings the base geometry stage is run with: the resolved
\* names of MaterialConfig's defaults, and another choice of the three.
SceneMaterials ==
    {[ground |-> "mat-itu_medium_dry_ground", wall |-> "mat-itu_concrete",
      rooftop |-> "mat-itu_brick"],
     [ground |-> "mat-itu_concrete", wall |-> "mat-itu_brick",
      rooftop |-> "mat-itu_metal"]}

\* Coordinates a bounding box is drawn from.
Coords == {0, 1}

BBoxes == [min_lon : Coords, min_lat : Coords, max_lon : Coords, max_lat : Coords]

\* BoundingBox.validate: raises ValueError unless min < max on both axes.
ValidateOk(b) == ~(b.min_lon >= b.max_lon) /\ ~(b.min_lat >= b.max_lat)

\* Paths are relative to the output directory, so the path of a mesh file
\* is also the filename a shape refers to it by (f"mesh/{f.name}").
WallNames ==
    <<"mesh/building_1_wall.ply", "mesh/building_2_wall.ply",
      "mesh/building_3_wall.ply", "mesh/building_4_wall.ply">>
RooftopNames ==
    <<"mesh/building_1_rooftop.ply", "mesh/building_2_rooftop.ply",
      "mesh/building_3_rooftop.ply", "mesh/building_4_rooftop.ply">>
WallFile(i) == WallNames[i]
RooftopFile(i) == RooftopNames[i]
WallShapeId(i) == "mesh-building_" \o ToString(i) \o "_wall"
RooftopShapeId(i) == "mesh-building_" \o ToString(i) \o "_rooftop"
GroundPly == "mesh/ground.ply"
TerrainPly == "mesh/terrain.ply"
WallsPly == "mesh/buildings_walls.ply"
RooftopsPly == "mesh/buildings_rooftops.ply"
TransmittersPly == "mesh/transmitters.ply"

\* BuildingMesher.get_building_files: the two globs over the mesh directory.
GetWallFiles(files) == {f \in files : \E i \in 1..MaxFeatures : f = WallFile(i)}
GetRooftopFiles(files) == {f \in files : \E i \in 1..MaxFeatures : f = RooftopFile(i)}

\* The scene the core library writes for nw wall meshes and nr rooftop
\* meshes: one top-level shape per mesh file, each bound to its material.
BaseNodes(m, nw, nr) ==
    <<Shape("mesh-ground", GroundPly, m.ground, 1)>>
    \o [i \in 1..nw |-> Shape(WallShapeId(i), WallFile(i), m.wall, 1)]
    \o [i \in 1..nr |-> Shape(RooftopShapeId(i), RooftopFile(i), m.rooftop, 1)]

BaseFiles(nw, nr) ==
    {GroundPly} \cup {WallFile(i) : i \in 1..nw} \cup {RooftopFile(i) : i \in 1..nr}

Failure(stage, what) == [stage |-> stage, what |-> what]
Raised(kind, stage) == [kind |-> kind, stage |-> stage]

\* A call of generate(bbox, materials) on a builder whose output directory
\* may or may not exist yet.
PipelineInit ==
    /\ UpdaterIdle
    /\ OthersIdle
    /\ pc = "EnsureOutputDirectory"
    /\ bbox \in BBoxes
    /\ outDir \in BOOLEAN
    /\ sceneXml = NoFile
    /\ meshFiles = {}
    /\ heightCb = "unset"
    /\ stagesRun = <<>>
    /\ failures = <<>>
    /\ errors = <<>>
    /\ io = {}
    /\ commits = <<>>
    /\ baseDoc = <<>>
    /\ terrainRec = NoTerrainRec
    /\ bld = NoBld
    /\ placed = NotPlaced
    /\ firstRun = NoFirstRun

\* generate, line 42: _ensure_output_directory().  It runs before
\* bbox.validate(); a failed mkdir is re-raised as ValueError, outside the
\* try block of generate.
EnsureOutputDirectory ==
    /\ pc = "EnsureOutputDirectory"
    /\ stagesRun' = Append(stagesRun, "EnsureOutputDirectory")
    /\ IF outDir
       THEN /\ io' = io \cup {"output_dir.exists"}
            /\ pc' = "ValidateInput"
            /\ UNCHANGED <<outDir, failures, errors>>
       ELSE /\ io' = io \cup {"output_dir.exists", "output_dir.mkdir"}
            /\ \E ok \in BOOLEAN :
                 IF ok
                 THEN /\ outDir' = TRUE
                      /\ pc' = "ValidateInput"
                      /\ UNCHANGED <<failures, errors>>
                 ELSE /\ pc' = "Raised"
                      /\ failures' = Append(failures, Failure("EnsureOutputDirectory", "mkdir"))
                      /\ errors' = Append(errors, Raised("ValueError", "EnsureOutputDirectory"))
                      /\ UNCHANGED outDir
    /\ UNCHANGED <<firstRun, bbox, sceneXml, meshFiles, heightCb, commits, baseDoc,
                   terrainRec, bld, placed>>
    /\ UNCHANGED notPipelineVars

\* generate, line 43: bbox.validate(), outside the try block.
ValidateInput ==
    /\ pc = "ValidateInput"
    /\ stagesRun' = Append(stagesRun, "ValidateInput")
    /\ IF ValidateOk(bbox)
       THEN /\ pc' = "GenerateBaseGeometry"
            /\ UNCHANGED <<failures, errors>>
       ELSE /\ pc' = "Raised"
            /\ failures' = Append(failures, Failure("ValidateInput", "bbox"))
            /\ errors' = Append(errors, Raised("ValueError", "ValidateInput"))
    /\ UNCHANGED <<firstRun, bbox, outDir, sceneXml, meshFiles, heightCb, io, commits,
                   baseDoc, terrainRec, bld, placed>>
    /\ UNCHANGED notPipelineVars

\* An order in which the buildings are processed before the terrain.
NextStageBuildingsFirst(stage) ==
    CASE stage = "GenerateBaseGeometry"  -> "ProcessBuildings"
      [] stage = "ProcessBuildings"      -> "ProcessTerrain"
      [] stage = "ProcessTerrain"        -> "ProcessInfrastructure"
      [] stage = "ProcessInfrastructure" -> "Done"

\* generate, lines 51-64: the stage generate runs after the given one.
NextStage(stage) ==
    CASE stage = "GenerateBaseGeometry"  -> "ProcessTerrain"
      [] stage = "ProcessTerrain"        -> "ProcessBuildings"
      [] stage = "ProcessBuildings"      -> "ProcessInfrastructure"
      [] stage = "ProcessInfrastructure" -> "Done"

\* An except clause that logs the exception and goes on with the next stage.
ExceptLogAndContinue(stage) ==
    /\ pc' = NextStage(stage)
    /\ UNCHANGED errors

\* generate, lines 66-68: an exception raised by any call inside the try
\* block is logged and re-raised to the caller as one RuntimeError.
GenerateExcept(stage) ==
    /\ pc' = "Raised"
    /\ errors' = Append(errors, Raised("RuntimeError", stage))

\* generate, line 52: _generate_core_scene.  The core library either writes
\* the base scene (scene.xml and one mesh file per shape) or raises.
GenerateBaseGeometry ==
    /\ pc = "GenerateBaseGeometry"
    /\ stagesRun' = Append(stagesRun, "GenerateBaseGeometry")
    /\ io' = io \cup {"core_library"}
    /\ \/ \E m \in SceneMaterials, nw \in 0..MaxFeatures, nr \in 0..MaxFeatures :
            /\ sceneXml' = [state |-> "complete", nodes |-> BaseNodes(m, nw, nr)]
            /\ baseDoc' = BaseNodes(m, nw, nr)
            /\ meshFiles' = BaseFiles(nw, nr)
            /\ pc' = NextStage("GenerateBaseGeometry")
            /\ UNCHANGED <<failures, errors>>
       \/ /\ failures' = Append(failures, Failure("GenerateBaseGeometry", "core_library"))
          /\ GenerateExcept("GenerateBaseGeometry")
          /\ UNCHANGED <<sceneXml, baseDoc, meshFiles>>
    /\ UNCHANGED <<firstRun, bbox, outDir, heightCb, commits, terrainRec, bld, placed>>
    /\ UNCHANGED notPipelineVars

\* _create_height_callback: null when there is no elevation grid.
CreateHeightCallback(elev) == IF elev = None THEN "null" ELSE "sampler"

\* A cleanup that deletes the files whether or not the save returned.
DeleteRegardless(files, doomed, saved) == files \ doomed

\* The deletions that follow updater.save() (cleanup_files in
\* _optimize_buildings, unlink in _process_terrain): they are reached only
\* when save returned; an exception of save skips them.
DeleteAfterSave(files, doomed, saved) ==
    IF saved THEN files \ doomed ELSE files

\* _process_terrain, lines 223-255: the try block entered once fetch has
\* returned an existing raster.  fail names the call that raises, if any;
\* outcome is the outcome of updater.save().  Every exception is caught and
\* turned into the (None, None, 0.0) result.
\* [elev, sceneXml, meshFiles, committed, failed, ground_bsdf]
ProcessTerrainTry(file, files, fail, outcome) ==
    LET res(elev, f, m, committed, what, gb) ==
            [elev |-> elev, sceneXml |-> f, meshFiles |-> m,
             committed |-> committed, failed |-> what, ground_bsdf |-> gb]
        files1 == files \cup {TerrainPly}
        r == RemoveShapesByFilenames(file.nodes, {GroundPly})
        tree == AddMeshShape(r.root, TerrainPly, "mesh-terrain", r.ret)
        file1 == Save(tree, file, outcome)
    IN  IF fail = "process_dem"
        THEN res(None, file, files, FALSE, "process_dem", None)
        ELSE IF fail = "generate_terrain_mesh"
        THEN res(None, file, files, FALSE, "generate_terrain_mesh", None)
        ELSE IF ~LoadOk(file)
        THEN res(None, file, files1, FALSE, "load", None)
        ELSE IF Falsy(r.ret)
        THEN res("grid", file, files1, FALSE, None, r.ret)
        ELSE IF outcome.kind # "ok"
        THEN res(None, file1, DeleteAfterSave(files1, {GroundPly}, FALSE),
                 FALSE, "save", r.ret)
        ELSE IF fail = "unlink" \/ GroundPly \notin files1
        THEN res(None, file1, files1, TRUE, "unlink", r.ret)
        ELSE res("grid", file1, DeleteAfterSave(files1, {GroundPly}, TRUE),
                 TRUE, None, r.ret)

TerrainFailPoints == {"none", "process_dem", "generate_terrain_mesh", "unlink"}

\* generate, lines 56-61: _process_terrain and _create_height_callback.
\* fetch "mkdir_error": DemDownloader._get_file_path creates the cache
\* directory outside every try block, so its OSError reaches generate.
ProcessTerrain ==
    /\ pc = "ProcessTerrain"
    /\ stagesRun' = Append(stagesRun, "ProcessTerrain")
    /\ io' = io \cup {"dem_fetch"}
    /\ \E fetch \in {"mkdir_error", "unavailable", "path"} :
         CASE fetch = "mkdir_error" ->
                /\ failures' = Append(failures, Failure("ProcessTerrain", "fetch_mkdir"))
                /\ GenerateExcept("ProcessTerrain")
                /\ terrainRec' = [status |-> "raised", ground_bsdf |-> None, pre |-> sceneXml]
                /\ UNCHANGED <<sceneXml, meshFiles, heightCb, commits>>
           [] fetch = "unavailable" ->
                /\ failures' = Append(failures, Failure("ProcessTerrain", "fetch_unavailable"))
                /\ heightCb' = CreateHeightCallback(None)
                /\ pc' = NextStage("ProcessTerrain")
                /\ terrainRec' = [status |-> "unavailable", ground_bsdf |-> None, pre |-> sceneXml]
                /\ UNCHANGED <<sceneXml, meshFiles, commits, errors>>
           [] fetch = "path" ->
                \E fail \in TerrainFailPoints,
                   outcome \in SaveOutcomes(Len(sceneXml.nodes)) :
                \E t \in {ProcessTerrainTry(sceneXml, meshFiles, fail, outcome)} :
                   /\ sceneXml' = t.sceneXml
                   /\ meshFiles' = t.meshFiles
                   /\ heightCb' = CreateHeightCallback(t.elev)
                   /\ commits' = IF t.committed THEN Append(commits, "ProcessTerrain")
                                 ELSE commits
                   /\ failures' = IF t.failed = None THEN failures
                                  ELSE Append(failures, Failure("ProcessTerrain", t.failed))
                   /\ terrainRec' = [status |-> IF t.failed = None THEN "ok" ELSE "failed",
                                     ground_bsdf |-> t.ground_bsdf, pre |-> sceneXml]
                   /\ pc' = NextStage("ProcessTerrain")
                   /\ UNCHANGED errors
    /\ UNCHANGED <<firstRun, bbox, outDir, baseDoc, bld, placed>>
    /\ UNCHANGED notPipelineVars

\* BuildingMesher.merge_meshes: False for an empty list; otherwise the
\* loads either succeed (ok) and the merged file is written, or an exception
\* or an all-empty input makes it return False.
MergeMeshes(files, ok) == files # {} /\ ok

\* How a stage places the meshes it generates: _apply_height_offset and
\* get_mesh add the callback's height, or leave z as it is without one.
Placement(cb) == IF cb = "sampler" THEN "draped" ELSE "flat"

\* _optimize_buildings, lines 133-166, once some building file was found.
\* [raised, sceneXml, meshFiles, committed, failed, wall_bsdf_id, rooftop_bsdf_id]
OptimizeBuildings(file, files, wall_files, rooftop_files, walls_merged, rooftops_merged, outcome) ==
    LET res(raised, f, m, committed, what, wb, rb) ==
            [raised |-> raised, sceneXml |-> f, meshFiles |-> m,
             committed |-> committed, failed |-> what,
             wall_bsdf_id |-> wb, rooftop_bsdf_id |-> rb]
        files1 == files
                    \cup (IF walls_merged THEN {WallsPly} ELSE {})
                    \cup (IF rooftops_merged THEN {RooftopsPly} ELSE {})
        r1 == RemoveShapesByFilenames(file.nodes, wall_files)
        r2 == RemoveShapesByFilenames(r1.root, rooftop_files)
        t1 == IF walls_merged /\ ~Falsy(r1.ret)
              THEN AddMeshShape(r2.root, WallsPly, "mesh-buildings-walls", r1.ret)
              ELSE r2.root
        t2 == IF rooftops_merged /\ ~Falsy(r2.ret)
              THEN AddMeshShape(t1, RooftopsPly, "mesh-buildings-rooftops", r2.ret)
              ELSE t1
        file1 == Save(t2, file, outcome)
    IN  IF ~LoadOk(file)
        THEN res(TRUE, file, files1, FALSE, "load", None, None)
        ELSE IF outcome.kind # "ok"
        THEN res(TRUE, file1,
                 DeleteAfterSave(files1, wall_files \cup rooftop_files, FALSE),
                 FALSE, "save", r1.ret, r2.ret)
        ELSE res(FALSE, file1,
                 DeleteAfterSave(files1, wall_files \cup rooftop_files, TRUE),
                 TRUE, None, r1.ret, r2.ret)

\* generate, line 63: _optimize_buildings(height_callback).
ProcessBuildings ==
    /\ pc = "ProcessBuildings"
    /\ stagesRun' = Append(stagesRun, "ProcessBuildings")
    /\ io' = io \cup {"mesh_dir.glob"}
    /\ LET wall_files == GetWallFiles(meshFiles)
           rooftop_files == GetRooftopFiles(meshFiles)
       IN  IF wall_files = {} /\ rooftop_files = {}
           THEN /\ pc' = NextStage("ProcessBuildings")
                /\ bld' = [NoBld EXCEPT !.ran = TRUE, !.pre = sceneXml,
                                        !.preFiles = meshFiles]
                /\ UNCHANGED <<sceneXml, meshFiles, commits, failures, errors, placed>>
           ELSE \E wok \in BOOLEAN, rok \in BOOLEAN,
                   outcome \in SaveOutcomes(Len(sceneXml.nodes)) :
                \E walls_merged \in {MergeMeshes(wall_files, wok)},
                   rooftops_merged \in {MergeMeshes(rooftop_files, rok)} :
                \E b \in {OptimizeBuildings(sceneXml, meshFiles, wall_files,
                              rooftop_files, walls_merged, rooftops_merged,
                              outcome)} :
                   LET merge_failures ==
                           (IF wall_files # {} /\ ~walls_merged
                            THEN <<Failure("ProcessBuildings", "merge_walls")>>
                            ELSE <<>>)
                           \o (IF rooftop_files # {} /\ ~rooftops_merged
                               THEN <<Failure("ProcessBuildings", "merge_rooftops")>>
                               ELSE <<>>)
                   IN
                   /\ sceneXml' = b.sceneXml
                   /\ meshFiles' = b.meshFiles
                   /\ commits' = IF b.committed THEN Append(commits, "ProcessBuildings")
                                 ELSE commits
                   /\ failures' = failures \o merge_failures
                                  \o (IF b.failed = None THEN <<>>
                                      ELSE <<Failure("ProcessBuildings", b.failed)>>)
                   /\ bld' = [ran |-> TRUE, wall_files |-> wall_files,
                              rooftop_files |-> rooftop_files,
                              walls_merged |-> walls_merged,
                              rooftops_merged |-> rooftops_merged,
                              wall_bsdf_id |-> b.wall_bsdf_id,
                              rooftop_bsdf_id |-> b.rooftop_bsdf_id,
                              pre |-> sceneXml, preFiles |-> meshFiles]
                   /\ placed' = IF walls_merged \/ rooftops_merged
                                THEN [placed EXCEPT !.buildings = Placement(heightCb)]
                                ELSE placed
                   /\ IF b.raised
                      THEN GenerateExcept("ProcessBuildings")
                      ELSE pc' = NextStage("ProcessBuildings") /\ UNCHANGED errors
    /\ UNCHANGED <<firstRun, bbox, outDir, heightCb, baseDoc, terrainRec>>
    /\ UNCHANGED notPipelineVars

\* Largest number of telecom features the vector feature service returns.
MaxTransmitters == 1

\* _process_telecom_infrastructure, lines 187-206, once get_mesh returned a
\* mesh.  export_ok: whether mesh.export wrote transmitters.ply.
\* [raised, sceneXml, meshFiles, committed, failed]
AddInfrastructure(file, files, export_ok, outcome) ==
    LET res(raised, f, m, committed, what) ==
            [raised |-> raised, sceneXml |-> f, meshFiles |-> m,
             committed |-> committed, failed |-> what]
        files1 == files \cup {TransmittersPly}
        tree == AddMeshShape(file.nodes, TransmittersPly, "mesh-transmitters",
                             "mat-itu_metal")
        file1 == Save(tree, file, outcome)
    IN  IF ~export_ok
        THEN res(TRUE, file, files, FALSE, "export")
        ELSE IF ~LoadOk(file)
        THEN res(TRUE, file, files1, FALSE, "load")
        ELSE IF outcome.kind # "ok"
        THEN res(TRUE, file1, files1, FALSE, "save")
        ELSE res(FALSE, file1, files1, TRUE, None)

\* generate, line 64: _process_telecom_infrastructure(bbox, height_callback).
\* n is the number of transmitters fetch_and_process collected (a failed
\* query is swallowed there and leaves none).
ProcessInfrastructure ==
    /\ pc = "ProcessInfrastructure"
    /\ stagesRun' = Append(stagesRun, "ProcessInfrastructure")
    /\ io' = io \cup {"feature_service"}
    /\ \E n \in 0..MaxTransmitters :
         IF n = 0
         THEN /\ pc' = NextStage("ProcessInfrastructure")
              /\ UNCHANGED <<sceneXml, meshFiles, commits, failures, errors, placed>>
         ELSE \E export_ok \in BOOLEAN,
                 outcome \in SaveOutcomes(Len(sceneXml.nodes) + 1) :
              \E a \in {AddInfrastructure(sceneXml, meshFiles, export_ok, outcome)} :
                 /\ sceneXml' = a.sceneXml
                 /\ meshFiles' = a.meshFiles
                 /\ commits' = IF a.committed
                               THEN Append(commits, "ProcessInfrastructure")
                               ELSE commits
                 /\ failures' = IF a.failed = None THEN failures
                                ELSE Append(failures, Failure("ProcessInfrastructure", a.failed))
                 /\ placed' = [placed EXCEPT !.infrastructure = Placement(heightCb)]
                 /\ IF a.raised
                    THEN GenerateExcept("ProcessInfrastructure")
                    ELSE pc' = NextStage("ProcessInfrastructure") /\ UNCHANGED errors
    /\ UNCHANGED <<firstRun, bbox, outDir, heightCb, baseDoc, terrainRec, bld>>
    /\ UNCHANGED notPipelineVars

PipelineNext ==
    \/ EnsureOutputDirectory
    \/ ValidateInput
    \/ GenerateBaseGeometry
    \/ ProcessTerrain
    \/ ProcessBuildings
    \/ ProcessInfrastructure

SpecPipeline == PipelineInit /\ [][PipelineNext]_vars

\* The enrichment stages of generate (lines 55-64) are run once more, on
\* the descriptor and the output directory the first run left behind.
RerunEnrichment ==
    /\ pc = "Done"
    /\ ~firstRun.ran
    /\ firstRun' = [ran |-> TRUE, nodes |-> sceneXml.nodes,
                    meshFiles |-> meshFiles, failures |-> failures,
                    placed |-> placed, terrain |-> terrainRec.status]
    /\ pc' = "ProcessTerrain"
    /\ stagesRun' = <<"ValidateInput", "GenerateBaseGeometry">>
    /\ failures' = <<>>
    /\ commits' = <<>>
    /\ terrainRec' = NoTerrainRec
    /\ bld' = NoBld
    /\ placed' = NotPlaced
    /\ heightCb' = "unset"
    /\ UNCHANGED <<bbox, outDir, sceneXml, meshFiles, errors, io, baseDoc>>
    /\ UNCHANGED notPipelineVars

RerunNext == PipelineNext \/ RerunEnrichment

SpecRerun == PipelineInit /\ [][RerunNext]_vars

\* ------------------------------------------------ claims on the pipeline
FailedIn(stage) == \E i \in 1..Len(failures) : failures[i].stage = stage

Ran(stage) == \E i \in 1..Len(stagesRun) : stagesRun[i] = stage

Committed(stage) == \E i \in 1..Len(commits) : commits[i] = stage

Finished == pc \in {"Done", "Raised"}

\* The shapes of a document that refer to one of the given files, in order.
ShapesOf(doc, files) == SelectSeq(doc, LAMBDA s : s.filename \in files)

\* C1: SceneXMLUpdater.save is atomic: the file at the descriptor path is
\* never left half-written; whoever reads it finds a complete document (or,
\* before the base scene exists, no file).
C1_DescriptorNeverHalfWritten == sceneXml.state # "torn"

\* C1: a save of a stage that wrote the whole document.
C1_Witness == commits # <<>> /\ sceneXml.state = "complete"

\* C2: in ProcessBuildings the result of merge_meshes decides, per category,
\* whether the descriptor is touched: when the merge of a category failed,
\* the shapes of that category are still in the descriptor and its
\* per-feature mesh files are still in the mesh directory.
C2_FailedMergeKeepsCategory ==
    (bld.ran /\ bld.pre.state = "complete") =>
        /\ ~bld.walls_merged =>
              /\ bld.wall_files \subseteq meshFiles
              /\ sceneXml.state = "complete" =>
                    ShapesOf(sceneXml.nodes, bld.wall_files)
                        = ShapesOf(bld.pre.nodes, bld.wall_files)
        /\ ~bld.rooftops_merged =>
              /\ bld.rooftop_files \subseteq meshFiles
              /\ sceneXml.state = "complete" =>
                    ShapesOf(sceneXml.nodes, bld.rooftop_files)
                        = ShapesOf(bld.pre.nodes, bld.rooftop_files)

\* C2: a buildings stage whose wall merge failed on existing wall files.
C2_Witness == bld.ran /\ bld.wall_files # {} /\ ~bld.walls_merged

\* C3: a failure inside ProcessBuildings or ProcessInfrastructure is not
\* fatal: generate raises nothing, goes on with the remaining stages, and
\* the descriptor stays a complete document.
C3_EnrichmentFailureNotFatal ==
    (FailedIn("ProcessBuildings") \/ FailedIn("ProcessInfrastructure")) =>
        /\ pc # "Raised"
        /\ errors = <<>>
        /\ sceneXml.state = "complete"
        /\ Finished => Ran("ProcessInfrastructure")

\* C3: a run in which the buildings stage failed.
C3_Witness == FailedIn("ProcessBuildings") /\ Finished

\* C4: when GenerateBaseGeometry fails, generate aborts: no later stage
\* runs, exactly one wrapped error (a RuntimeError naming that failure)
\* reaches the caller, and the pipeline commits no descriptor mutation.
C4_BaseGeometryFailureAborts ==
    FailedIn("GenerateBaseGeometry") =>
        /\ pc = "Raised"
        /\ errors = <<Raised("RuntimeError", "GenerateBaseGeometry")>>
        /\ ~Ran("ProcessTerrain")
        /\ ~Ran("ProcessBuildings")
        /\ ~Ran("ProcessInfrastructure")
        /\ commits = <<>>
        /\ heightCb = "unset"

\* C4 witness: the base geometry stage failed on a valid bounding box.
C4_Witness ==
    /\ FailedIn("GenerateBaseGeometry")
    /\ ValidateOk(bbox)
    /\ pc = "Raised"

\* C5: when the elevation fetch is unavailable or a step of ProcessTerrain
\* fails, generate does not abort: the callback handed on is null, both
\* later stages run and place their features flat, and generate returns
\* without raising.
C5_TerrainFailureDegradesToFlat ==
    (FailedIn("ProcessTerrain") /\ Finished) =>
        /\ pc = "Done"
        /\ errors = <<>>
        /\ heightCb = "null"
        /\ Ran("ProcessBuildings")
        /\ Ran("ProcessInfrastructure")
        /\ placed.buildings # "draped"
        /\ placed.infrastructure # "draped"

\* C5: a finished run whose terrain stage failed.
C5_Witness == FailedIn("ProcessTerrain") /\ Finished

\* C6: for a bounding box with min_lon >= max_lon or min_lat >= max_lat,
\* generate makes no file-system, cache or network access at all, the
\* creation of the output directory included.
C6_InvalidBBoxNoIO == ~ValidateOk(bbox) => io = {}

\* C6: validation rejected a bounding box.
C6_Witness == ~ValidateOk(bbox) /\ FailedIn("ValidateInput")

FirstShapeOf(doc, files) == ShapesOf(doc, files)[1]

\* The shape with the given id is in the document exactly once, and refers
\* to the given file with the given material.
HasReplacement(doc, id, file, bsdf) ==
    /\ CountId(doc, id) = 1
    /\ \E i \in 1..Len(doc) :
         doc[i] = Shape(id, file, bsdf, 1)

\* C10: material preservation.  When the terrain stage replaces the ground
\* shape A (mesh/ground.ply, material m1), remove_shapes_by_filenames
\* returns m1 and the saved descriptor no longer holds A and holds
\* mesh-terrain with material m1; when the buildings stage replaces the wall
\* (rooftop) shapes by a merged shape, the merged shape carries the material
\* returned for the removed shapes, which is the material of the first of
\* them.  No replacement carries another material.
C10_MaterialPreserved ==
    /\ Committed("ProcessTerrain") =>
          /\ terrainRec.ground_bsdf = FirstShapeOf(baseDoc, {GroundPly}).bsdf
          /\ sceneXml.state = "complete" =>
                /\ ShapesOf(sceneXml.nodes, {GroundPly}) = <<>>
                /\ HasReplacement(sceneXml.nodes, "mesh-terrain", TerrainPly,
                                  FirstShapeOf(baseDoc, {GroundPly}).bsdf)
    /\ (Committed("ProcessBuildings") /\ bld.walls_merged) =>
          /\ bld.wall_bsdf_id = FirstShapeOf(baseDoc, bld.wall_files).bsdf
          /\ sceneXml.state = "complete" =>
                /\ ShapesOf(sceneXml.nodes, bld.wall_files) = <<>>
                /\ HasReplacement(sceneXml.nodes, "mesh-buildings-walls", WallsPly,
                                  FirstShapeOf(baseDoc, bld.wall_files).bsdf)
    /\ (Committed("ProcessBuildings") /\ bld.rooftops_merged) =>
          /\ bld.rooftop_bsdf_id = FirstShapeOf(baseDoc, bld.rooftop_files).bsdf
          /\ sceneXml.state = "complete" =>
                /\ ShapesOf(sceneXml.nodes, bld.rooftop_files) = <<>>
                /\ HasReplacement(sceneXml.nodes, "mesh-buildings-rooftops",
                                  RooftopsPly,
                                  FirstShapeOf(baseDoc, bld.rooftop_files).bsdf)

\* C10 witness: terrain and both merged building shapes were committed, with
\* more than one wall shape replaced.
C10_Witness ==
    /\ Committed("ProcessTerrain")
    /\ Committed("ProcessBuildings")
    /\ bld.walls_merged
    /\ bld.rooftops_merged
    /\ Cardinality(bld.wall_files) >= 2
    /\ sceneXml.state = "complete"

\* ------------------------------------------------- DemDownloader (cache)
\* The number of fetch calls of one run.
MaxFetches == 2

\* The number of chunks response.iter_content yields for one body.
BodyChunks == 2

\* The bounding boxes fetch is called with: (minx, miny, maxx, maxy).
DemBoxes == {<<0, 0, 1, 1>>, <<0, 0, 2, 2>>}

\* hashlib.md5(...).hexdigest(): a digest, taken to be free of collisions
\* on the strings of the model.
Md5(str) == "md5(" \o str \o ")"

\* DemDownloader._get_file_path: the cache path of a bounding box.
GetFilePath(b) ==
    LET bbox_str == ToString(b[1]) \o "_" \o ToString(b[2]) \o "_"
                    \o ToString(b[3]) \o "_" \o ToString(b[4])
    IN  "geotiffs/tinitaly_" \o Md5(bbox_str) \o ".tif"

CachePaths == {GetFilePath(b) : b \in DemBoxes}

AbsentFile == [exists |-> FALSE, written |-> 0, body |-> "none"]

\* A file a finished transfer of a raster body left behind.
CompleteRaster == [exists |-> TRUE, written |-> BodyChunks, body |-> "raster"]

\* The Content-Type headers the service answers with; "" is the default of
\* headers.get when the header is absent.
ContentTypes ==
    {"image/tiff", "application/vnd.ogc.se_xml", "Text/XML", "text/html",
     "text/plain", ""}

\* str.lower on the content types of the model.
Lower(str) == IF str = "Text/XML" THEN "text/xml" ELSE str

\* sub in str
Contains(str, sub) ==
    \E i \in 1..(Len(str) - Len(sub) + 1) :
        SubSeq(str, i, i + Len(sub) - 1) = sub

\* The body the service sends with a content type: a raster with
\* image/tiff, an error report in text otherwise.
BodyOf(ctype) == IF Lower(ctype) = "image/tiff" THEN "raster" ELSE "text"

\* What requests.get can end in.
Responses ==
    {[kind |-> "connection_error", status |-> 0, ctype |-> ""]}
    \cup {[kind |-> "response", status |-> st, ctype |-> "text/html"] :
              st \in {404, 500}}
    \cup {[kind |-> "response", status |-> 200, ctype |-> c] :
              c \in ContentTypes}

\* A cache check that never finds a file.
CacheNeverHit(file) == FALSE

\* fetch: file_path.exists()
CacheHit(file) == file.exists

\* _download_and_save: "xml" in content_type
IsXmlError(ctype) == Contains(Lower(ctype), "xml")

\* The record of a fetch call that ended.
Call(b, ret, reqs, pre, cause, resp, after) ==
    [bbox |-> b, ret |-> ret, reqs |-> reqs, pre |-> pre, cause |-> cause,
     resp |-> resp, after |-> after]

NoResponse == [kind |-> "none", status |-> 0, ctype |-> ""]

\* fetch's except clause: the partial file is unlinked, None is returned.
FetchExcept(cause, resp) ==
    /\ cache' = [cache EXCEPT ![dcur.path] = AbsentFile]
    /\ calls' = Append(calls, Call(dcur.bbox, None, 1, AbsentFile, cause, resp,
                                   AbsentFile))
    /\ dpc' = "Idle"
    /\ dcur' = NoFetch
    /\ UNCHANGED cacheDir

\* A run that starts with a cache directory earlier runs may have filled
\* with complete rasters.
DemInit ==
    /\ UpdaterIdle
    /\ PipelineIdle
    /\ FramesIdle
    /\ TerrainIdle
    /\ MaterialIdle
    /\ LaterIdle
    /\ cacheDir \in BOOLEAN
    /\ cache \in [CachePaths -> {AbsentFile, CompleteRaster}]
    /\ (~cacheDir => \A p \in CachePaths : cache[p] = AbsentFile)
    /\ dpc = "Idle"
    /\ dcur = NoFetch
    /\ calls = <<>>

\* fetch up to the cache check: the path is computed (the cache directory
\* is created), and a file at the path is returned as it is.
Fetch ==
    /\ dpc = "Idle"
    /\ Len(calls) < MaxFetches
    /\ \E b \in DemBoxes, mkdir_ok \in BOOLEAN :
        LET p == GetFilePath(b) IN
        IF ~mkdir_ok
        THEN /\ ~cacheDir
             /\ calls' = Append(calls, Call(b, "raised", 0, cache[p], "mkdir",
                                            NoResponse, cache[p]))
             /\ UNCHANGED <<cacheDir, cache, dpc, dcur>>
        ELSE /\ cacheDir' = TRUE
             /\ IF CacheHit(cache[p])
                THEN /\ calls' = Append(calls, Call(b, p, 0, cache[p], "none",
                                                    NoResponse, cache[p]))
                     /\ UNCHANGED <<cache, dpc, dcur>>
                ELSE /\ dpc' = "Download"
                     /\ dcur' = [bbox |-> b, path |-> p, resp |-> "none"]
                     /\ UNCHANGED <<cache, calls>>
    /\ UNCHANGED notDemVars

\* _download_and_save up to open(file_path, "wb"): the request, the status
\* check, the content-type check and the creation of the file.
DownloadAndSave ==
    /\ dpc = "Download"
    /\ \E r \in Responses, open_ok \in BOOLEAN :
        CASE r.kind = "connection_error" ->
                 open_ok /\ FetchExcept("connection_error", r)
          [] r.kind = "response" /\ r.status # 200 ->
                 open_ok /\ FetchExcept("http_error", r)
          [] r.kind = "response" /\ r.status = 200 /\ IsXmlError(r.ctype) ->
                 open_ok /\ FetchExcept("xml_error", r)
          [] OTHER ->
                 IF ~open_ok
                 THEN FetchExcept("open_error", r)
                 ELSE /\ cache' = [cache EXCEPT ![dcur.path] =
                                       [exists |-> TRUE, written |-> 0,
                                        body |-> BodyOf(r.ctype)]]
                      /\ dcur' = [dcur EXCEPT !.resp = r]
                      /\ dpc' = "Writing"
                      /\ UNCHANGED <<cacheDir, calls>>
    /\ UNCHANGED notDemVars

\* One round of the loop over response.iter_content: the next chunk is
\* written into the file at the cache path; after the last one the file is
\* closed and fetch returns the path.  An exception of the stream or of the
\* write ends in fetch's except clause.
WriteChunk ==
    /\ dpc = "Writing"
    /\ \E chunk_ok \in BOOLEAN :
        IF ~chunk_ok
        THEN FetchExcept("transfer_exception", dcur.resp)
        ELSE LET f == [cache[dcur.path] EXCEPT !.written = @ + 1] IN
             /\ cache' = [cache EXCEPT ![dcur.path] = f]
             /\ IF f.written = BodyChunks
                THEN /\ calls' = Append(calls,
                                        Call(dcur.bbox, dcur.path, 1, AbsentFile,
                                             "none", dcur.resp, f))
                     /\ dpc' = "Idle"
                     /\ dcur' = NoFetch
                ELSE UNCHANGED <<calls, dpc, dcur>>
             /\ UNCHANGED cacheDir
    /\ UNCHANGED notDemVars

\* The run is interrupted during the transfer (the process is killed, or
\* KeyboardInterrupt, which `except Exception` does not catch, is raised):
\* nothing of fetch runs any more and the file stays as it is.
Interrupt ==
    /\ dpc = "Writing"
    /\ calls' = Append(calls, Call(dcur.bbox, "interrupted", 1, AbsentFile,
                                   "interrupt", dcur.resp, cache[dcur.path]))
    /\ dpc' = "Idle"
    /\ dcur' = NoFetch
    /\ UNCHANGED <<cacheDir, cache>>
    /\ UNCHANGED notDemVars

DemNext == Fetch \/ DownloadAndSave \/ WriteChunk \/ Interrupt

SpecDem == DemInit /\ [][DemNext]_vars

\* A call that downloaded the body and returned the cache path.
Downloaded(c) == c.ret = GetFilePath(c.bbox) /\ c.reqs = 1

\* C11: cache idempotence.  A fetch that finds a file at the cache path of
\* its bounding box returns that path without a request; after a fetch that
\* downloaded the file, every later fetch with the same bounding box
\* returns the same path without a request, so two calls make one transfer.
C11_CacheIdempotence ==
    /\ \A i \in 1..Len(calls) :
           (calls[i].pre.exists /\ calls[i].cause # "mkdir")
               => /\ calls[i].ret = GetFilePath(calls[i].bbox)
                  /\ calls[i].reqs = 0
    /\ \A i \in 1..Len(calls) : \A j \in (i + 1)..Len(calls) :
           (Downloaded(calls[i]) /\ calls[j].bbox = calls[i].bbox)
               => /\ calls[j].ret = calls[i].ret
                  /\ calls[j].reqs = 0
    /\ \A i \in 1..Len(calls) :
           (Downloaded(calls[i]) /\ dpc \in {"Download", "Writing"})
               => dcur.bbox # calls[i].bbox

C11_Witness ==
    /\ Len(calls) = 2
    /\ calls[1].bbox = calls[2].bbox
    /\ Downloaded(calls[1])
    /\ calls[2].ret = calls[1].ret
    /\ calls[2].reqs = 0

\* C12: no file at a cache path holds only part of a body, in any state.
C12_NoPartialFileAtCachePath ==
    \A p \in CachePaths : cache[p].exists => cache[p].written = BodyChunks

\* A later fetch took a file with part of a body for a cache hit.
C12_Witness ==
    \E i \in 1..Len(calls) :
        /\ calls[i].pre.exists
        /\ calls[i].pre.written < BodyChunks
        /\ calls[i].ret = GetFilePath(calls[i].bbox)

\* The service answered 200 with an error report in text, not a raster.
ErrorPayload(resp) ==
    resp.kind = "response" /\ resp.status = 200 /\ BodyOf(resp.ctype) = "text"

\* A fetch that missed the cache and ended in failure: an HTTP error status,
\* an error payload, or an exception on the way to the complete file.
EndedInFailure(c) ==
    /\ ~c.pre.exists
    /\ c.cause # "interrupt"
    /\ \/ c.cause \in {"connection_error", "http_error", "xml_error",
                       "open_error", "transfer_exception"}
       \/ ErrorPayload(c.resp)

\* C13: a fetch that missed the cache and ended in failure returned None
\* and left no file at the cache path.
C13_FailedFetchLeavesNoFile ==
    \A i \in 1..Len(calls) :
        EndedInFailure(calls[i])
            => calls[i].ret = None /\ ~calls[i].after.exists

\* A failed transfer was cleaned up and the next fetch of the same bounding
\* box asked the service again.
C13_Witness ==
    /\ Len(calls) = 2
    /\ calls[1].cause = "transfer_exception"
    /\ calls[1].ret = None
    /\ calls[2].bbox = calls[1].bbox
    /\ calls[2].reqs = 1

\* C14: a 200 answer with a textual or XML error body creates no file at
\* the cache path, and the fetch returns None.
C14_ErrorBodyIsFailure ==
    /\ (dpc = "Writing" /\ ErrorPayload(dcur.resp))
           => ~cache[dcur.path].exists
    /\ \A i \in 1..Len(calls) :
           (ErrorPayload(calls[i].resp) /\ calls[i].cause # "interrupt")
               => calls[i].ret = None /\ ~calls[i].after.exists

\* An XML error report was recognised and refused.
C14_Witness ==
    \E i \in 1..Len(calls) :
        /\ calls[i].cause = "xml_error"
        /\ calls[i].ret = None
        /\ ~calls[i].after.exists

\* The stages of generate in the order of the pipeline.
StageOrder ==
    <<"ValidateInput", "GenerateBaseGeometry", "ProcessTerrain",
      "ProcessBuildings", "ProcessInfrastructure">>

\* The stages started so far (the preparation of the output directory is
\* not one of them).
StagesStarted == SelectSeq(stagesRun, LAMBDA st : st # "EnsureOutputDirectory")

\* The callback _process_terrain's result yields in this run.
TerrainCallback ==
    CreateHeightCallback(IF terrainRec.status = "ok" THEN "grid" ELSE None)

\* C15: the stages of generate run in the fixed order ValidateInput,
\* GenerateBaseGeometry, ProcessTerrain, ProcessBuildings,
\* ProcessInfrastructure, Done: the stages started are a prefix of that
\* order (none twice, none before its predecessor), the stage about to run
\* is the next of the order, Done comes after all five, and the buildings
\* and infrastructure stages work with the callback ProcessTerrain produced.
C15_StagesInFixedOrder ==
    /\ Len(StagesStarted) <= Len(StageOrder)
    /\ \A i \in 1..Len(StagesStarted) : StagesStarted[i] = StageOrder[i]
    /\ pc \in Range(StageOrder) => pc = StageOrder[Len(StagesStarted) + 1]
    /\ pc = "Done" => StagesStarted = StageOrder
    /\ (Ran("ProcessBuildings") \/ Ran("ProcessInfrastructure"))
           => /\ Ran("ProcessTerrain")
              /\ heightCb = TerrainCallback
              /\ placed.buildings \in {"none", Placement(TerrainCallback)}
              /\ placed.infrastructure \in {"none", Placement(TerrainCallback)}

C15_Witness ==
    /\ pc = "Done"
    /\ StagesStarted = StageOrder
    /\ placed.buildings = "draped"
    /\ placed.infrastructure = "draped"

\* The nodes of a document as a set of (id, file, material).
NodeSet(d) ==
    {[id |-> d[i].id, filename |-> d[i].filename, bsdf |-> d[i].bsdf] :
         i \in 1..Len(d)}

\* The second run of the enrichment stages has ended.
RerunDone == firstRun.ran /\ pc = "Done"

\* Both runs met the same surroundings and no failure: the raster was there
\* and the feature service returned features in both or in neither.
SameSurroundings ==
    /\ firstRun.failures = <<>>
    /\ failures = <<>>
    /\ (firstRun.placed.infrastructure = "none")
           <=> (placed.infrastructure = "none")

EmptyFeatureRun ==
    /\ pc = "Done"
    /\ ValidateOk(bbox)
    /\ failures = <<>>
    /\ Len(baseDoc) = 1
    /\ baseDoc[1].filename = GroundPly
    /\ bld.wall_files = {} /\ bld.rooftop_files = {}
    /\ terrainRec.status = "ok"
    /\ placed.infrastructure = "none"

Lons == {20, 22, 24, 26}

\* Latitudes in degrees, north of the equator (the elevation service covers
\* Italy).
Lats == {40, 42, 44}

\* Largest number of telecom features in one answer of the feature service.
MaxPoints == 2

\* int((lon + 180) / 6) + 1, with lon in half degrees.
UtmZone(lon) == ((lon + 360) \div 12) + 1

\* f"EPSG:32{hemisphere}{zone:02d}"
EpsgCode(hemisphere, zone) ==
    "EPSG:32" \o hemisphere \o (IF zone < 10 THEN "0" ELSE "") \o ToString(zone)

\* DemProcessor._get_utm_crs
GetUtmCrs(lon, lat) ==
    EpsgCode(IF lat >= 0 THEN "6" ELSE "7", UtmZone(lon))

\* BoundingBox.center: ((min_lon + max_lon) / 2, (min_lat + max_lat) / 2)
Center(b) ==
    [lon |-> (b.min_lon + b.max_lon) \div 2,
     lat |-> (b.min_lat + b.max_lat) \div 2]

MinOfSet(S) == CHOOSE x \in S : \A y \in S : x <= y

MaxOfSet(S) == CHOOSE x \in S : \A y \in S : x >= y

\* GeoDataFrame.estimate_utm_crs: the UTM systems (WGS 84) whose area of use
\* contains the centre of the total bounds of the geometries.  A centre on a
\* zone boundary lies in the areas of both zones.
EstimateUtmCrs(points) ==
    LET x_center == (MinOfSet({p.lon : p \in points})
                     + MaxOfSet({p.lon : p \in points})) \div 2
        y_center2 == MinOfSet({p.lat : p \in points})
                     + MaxOfSet({p.lat : p \in points})
        zones == {UtmZone(x_center)}
                 \cup (IF (x_center + 360) % 12 = 0
                       THEN {UtmZone(x_center) - 1} ELSE {})
        hemispheres == (IF y_center2 >= 0 THEN {"6"} ELSE {})
                       \cup (IF y_center2 <= 0 THEN {"7"} ELSE {})
    IN  {EpsgCode(h, z) : h \in hemispheres, z \in zones}

\* The bounding boxes of the model (validate: min < max on both axes).
FrameBoxes ==
    {[min_lon |-> a, min_lat |-> c, max_lon |-> b, max_lat |-> d] :
         a \in Lons, b \in Lons, c \in Lats, d \in Lats}

InBox(p, b) ==
    /\ b.min_lon <= p.lon /\ p.lon <= b.max_lon
    /\ b.min_lat <= p.lat /\ p.lat <= b.max_lat

\* A bounding box and the features ox.features_from_bbox returns for it.
FramesInit ==
    /\ UpdaterIdle
    /\ PipelineIdle
    /\ DemIdle
    /\ TerrainIdle
    /\ MaterialIdle
    /\ LaterIdle
    /\ fbbox \in {b \in FrameBoxes : ValidateOk(b)}
    /\ gdf \in {ps \in SUBSET {[lon |-> x, lat |-> y] : x \in Lons, y \in Lats} :
                   /\ Cardinality(ps) <= MaxPoints
                   /\ \A p \in ps : InBox(p, fbbox)}
    /\ terrainCrs = None
    /\ telecomCrs = None

\* generate_terrain_mesh with mesh_origin = bbox.center: the vertices are
\* projected into the UTM system of the origin.
GenerateTerrainMesh ==
    /\ terrainCrs = None
    /\ terrainCrs' = GetUtmCrs(Center(fbbox).lon, Center(fbbox).lat)
    /\ UNCHANGED <<fbbox, gdf, telecomCrs>>
    /\ UNCHANGED notFramesVars

\* TelecomManager._process_gdf: the features and the bbox centre are
\* projected into the system estimate_utm_crs returns for the features.
ProcessGdf ==
    /\ telecomCrs = None
    /\ gdf # {}
    /\ \E utm_crs \in EstimateUtmCrs(gdf) : telecomCrs' = utm_crs
    /\ UNCHANGED <<fbbox, gdf, terrainCrs>>
    /\ UNCHANGED notFramesVars

FramesNext == GenerateTerrainMesh \/ ProcessGdf

SpecFrames == FramesInit /\ [][FramesNext]_vars

\* C18: every component that produces local coordinates uses the same
\* frame: the projected system _process_gdf computes the features' local
\* (x, y) in is the UTM zone of the bbox centre, the one generate_terrain_mesh
\* and local_to_global use.
C18_SameProjectedFrame ==
    (terrainCrs # None /\ telecomCrs # None) => telecomCrs = terrainCrs

\* The terrain lies in zone 33 (centre at 12 E), the only feature, at 11 E,
\* was projected into zone 32.
C18_Witness ==
    /\ Center(fbbox).lon = 24
    /\ gdf = {[lon |-> 22, lat |-> 42]}
    /\ terrainCrs = "EPSG:32633"
    /\ telecomCrs = "EPSG:32632"

\* ------------------------------------------------ terrain mesh elevations
\* Largest number of rows and of columns of an elevation grid.
MaxGrid == 2

\* The elevations of the grid cells.
Elevs == {0, 7}

\* The side of a grid cell in map units.  The grid's transform (from_bounds)
\* puts its west edge at x = 0 and its north edge at y = CellSize * height.
CellSize == 2

Min2(a, b) == IF a <= b THEN a ELSE b

Max2(a, b) == IF a >= b THEN a ELSE b

GridHeight(g) == Len(g)

GridWidth(g) == Len(g[1])

\* rasterio.transform.rowcol(transform, x, y): the zero-based row and column
\* of the cell the point falls in, floor of the inverse transform.
RowCol(g, x, y) ==
    [r |-> (CellSize * GridHeight(g) - y) \div CellSize,
     c |-> x \div CellSize]

\* elevation_data.flatten(): the cells in row-major order.
RECURSIVE Flatten(_)
Flatten(g) == IF g = <<>> THEN <<>> ELSE Head(g) \o Flatten(Tail(g))

\* A reference elevation that is the grid minimum whatever the origin.
RefElevMinimum(g, mesh_origin) ==
    MinOfSet(Range(Flatten(g)))

\* _normalize_elevation, lines 153-159: ref_elev.
RefElev(g, mesh_origin) ==
    IF mesh_origin.given
    THEN LET rc == RowCol(g, mesh_origin.x, mesh_origin.y)
             r == Max2(0, Min2(rc.r, GridHeight(g) - 1))
             c == Max2(0, Min2(rc.c, GridWidth(g) - 1))
         IN  g[r + 1][c + 1]
    ELSE MinOfSet(Range(Flatten(g)))

\* _normalize_elevation: (elevation_data.flatten() - ref_elev, ref_elev)
NormalizeElevation(g, mesh_origin) ==
    LET ref_elev == RefElev(g, mesh_origin)
        flat == Flatten(g)
    IN  [done |-> TRUE, zs |-> [k \in 1..Len(flat) |-> flat[k] - ref_elev],
         ref_elev |-> ref_elev]

Grids ==
    UNION {[1..h -> [1..w -> Elevs]] : h \in 1..MaxGrid, w \in 1..MaxGrid}

\* The origins of a grid: every point from one unit outside the grid on
\* each side, and no origin.
Origins(g) ==
    {NoOrigin} \cup {[given |-> TRUE, x |-> x, y |-> y] :
                    x \in (-1)..(CellSize * GridWidth(g) + 1),
                    y \in (-1)..(CellSize * GridHeight(g) + 1)}

TerrainInit ==
    /\ UpdaterIdle
    /\ PipelineIdle
    /\ DemIdle
    /\ FramesIdle
    /\ MaterialIdle
    /\ LaterIdle
    /\ elevation_data \in Grids
    /\ origin \in Origins(elevation_data)
    /\ tmesh = NoMesh

\* generate_terrain_mesh, lines 83-95 and 116: the z of the vertices, in the
\* order of the vertices, and the returned reference elevation.
GenerateTerrainElevations ==
    /\ ~tmesh.done
    /\ tmesh' = NormalizeElevation(elevation_data, origin)
    /\ UNCHANGED <<elevation_data, origin>>
    /\ UNCHANGED notTerrainVars

TerrainNext == GenerateTerrainElevations

SpecTerrain == TerrainInit /\ [][TerrainNext]_vars

\* The zero-based cells (i, j) of the grid the point p falls in: row i covers
\* north - (i + 1) * CellSize < y <= north - i * CellSize, column j covers
\* j * CellSize <= x < (j + 1) * CellSize.
CellsHolding(g, p) ==
    {ij \in (0..(GridHeight(g) - 1)) \X (0..(GridWidth(g) - 1)) :
        /\ CellSize * (GridHeight(g) - ij[1] - 1) < p.y
        /\ p.y <= CellSize * (GridHeight(g) - ij[1])
        /\ CellSize * ij[2] <= p.x
        /\ p.x < CellSize * (ij[2] + 1)}

\* The point p moved onto the grid: each coordinate clamped to the extent
\* of the grid (the east and south edges belong to the last cells).
OntoGrid(g, p) ==
    [given |-> TRUE,
     x |-> Max2(0, Min2(p.x, CellSize * GridWidth(g) - 1)),
     y |-> Max2(1, Min2(p.y, CellSize * GridHeight(g)))]

\* C19: with an origin in cell (r, c) of elevation E (an origin outside the
\* grid counts for the nearest edge cell) generate_terrain_mesh returns E,
\* the vertex of cell (i, j) has index i * width + j and z = elevation[i, j]
\* - E, so z = 0 at (r, c); without an origin E is the grid minimum and
\* every z >= 0.
C19_TerrainReferenceElevation ==
    tmesh.done =>
        LET h == GridHeight(elevation_data)
            w == GridWidth(elevation_data)
        IN  /\ Len(tmesh.zs) = h * w
            /\ \A i \in 0..(h - 1), j \in 0..(w - 1) :
                   tmesh.zs[i * w + j + 1] = elevation_data[i + 1][j + 1] - tmesh.ref_elev
            /\ origin.given =>
                   \A ij \in CellsHolding(elevation_data, OntoGrid(elevation_data, origin)) :
                       /\ tmesh.ref_elev = elevation_data[ij[1] + 1][ij[2] + 1]
                       /\ tmesh.zs[ij[1] * w + ij[2] + 1] = 0
            /\ ~origin.given =>
                   /\ tmesh.ref_elev \in Range(Flatten(elevation_data))
                   /\ \A k \in 1..Len(tmesh.zs) : tmesh.zs[k] >= 0

\* An origin outside the grid on a cell that is not the lowest one: some
\* vertex lies below the reference.
C19_Witness ==
    /\ tmesh.done
    /\ origin.given
    /\ CellsHolding(elevation_data, origin) = {}
    /\ CellsHolding(elevation_data, OntoGrid(elevation_data, origin)) # {}
    /\ tmesh.ref_elev = 7
    /\ \E k \in 1..Len(tmesh.zs) : tmesh.zs[k] < 0

\* ------------------------------------------------------ resolve_material
\* Largest number of entries of the material catalog.
MaxCatalog == 3

\* Names of ITU_MATERIALS.
MaterialNames == {"mat-itu_concrete", "mat-itu_brick", "mat-itu_metal"}

\* The catalogs: the names in some order, none twice, at least one.
Catalogs ==
    UNION {{q \in [1..n -> MaterialNames] :
                \A i, j \in 1..n : q[i] = q[j] => i = j} : n \in 1..MaxCatalog}

\* list.__getitem__ with an int: an index from -len to -1 counts from the
\* end; outside -len..len-1 it raises IndexError.
ListGet(list, idx) ==
    IF 0 <= idx /\ idx < Len(list) THEN [raised |-> FALSE, value |-> list[idx + 1]]
    ELSE IF -Len(list) <= idx /\ idx < 0
    THEN [raised |-> FALSE, value |-> list[Len(list) + idx + 1]]
    ELSE [raised |-> TRUE, value |-> None]

\* resolve_material
ResolveMaterial(list, idx) ==
    IF ~ListGet(list, idx).raised
    THEN ListGet(list, idx).value
    ELSE ListGet(list, 0).value

MaterialInit ==
    /\ UpdaterIdle
    /\ PipelineIdle
    /\ DemIdle
    /\ FramesIdle
    /\ TerrainIdle
    /\ LaterIdle
    /\ catalog \in Catalogs
    /\ midx = 0
    /\ mret = None

\* A call resolve_material(idx).
DoResolveMaterial ==
    /\ \E idx \in (-(MaxCatalog + 2))..(MaxCatalog + 2) :
           /\ midx' = idx
           /\ mret' = ResolveMaterial(catalog, idx)
    /\ UNCHANGED catalog
    /\ UNCHANGED notMaterialVars

MaterialNext == DoResolveMaterial

SpecMaterial == MaterialInit /\ [][MaterialNext]_vars

\* C20: for an index inside 0..N-1 resolve_material returns the catalog
\* entry at the index, for every other integer, negative ones included, the
\* entry at index 0.
C20_OutOfRangeFallsBackToFirst ==
    mret # None =>
        mret = IF 0 <= midx /\ midx < Len(catalog)
               THEN catalog[midx + 1]
               ELSE catalog[1]

\* An index beyond the end of the catalog was answered with the first entry.
C20_Witness ==
    /\ mret # None
    /\ midx >= Len(catalog)
    /\ mret = catalog[1]

\* The mesh files the shapes of a document refer to.
ReferencedFiles(d) == {d[i].filename : i \in 1..Len(d)} \ {None}

\* C26: a mesh file is deleted only after the descriptor that no longer
\* refers to it was saved: every step that deletes mesh files is a step
\* in which updater.save() wrote the whole descriptor, and the written
\* descriptor refers to none of the deleted files; a step whose save failed
\* deletes nothing.
C26_DeleteOnlyAfterSave ==
    [][(meshFiles \ meshFiles') # {}
           => /\ Len(commits') = Len(commits) + 1
              /\ sceneXml'.state = "complete"
              /\ ReferencedFiles(sceneXml'.nodes) \cap (meshFiles \ meshFiles') = {}]_vars

\* The save of ProcessBuildings failed and the per-feature files are there.
C26_Witness ==
    /\ \E i \in 1..Len(failures) :
           failures[i] = Failure("ProcessBuildings", "save")
    /\ bld.wall_files # {}
    /\ bld.wall_files \cup bld.rooftop_files \subseteq meshFiles

\* C27: referential integrity.  After the saves of the enrichment stages and
\* the deletions that follow them, every shape of the descriptor on disk
\* refers to a file of the mesh directory, whichever merges succeed or fail.
C27_SavedShapesReferToExistingFiles ==
    (commits # <<>> /\ sceneXml.state = "complete")
        => ReferencedFiles(sceneXml.nodes) \subseteq meshFiles

\* The wall merge failed, the rooftop merge succeeded, the descriptor was
\* saved and the per-feature files were deleted.
C27_Witness ==
    /\ Committed("ProcessBuildings")
    /\ sceneXml.state = "complete"
    /\ bld.wall_files # {} /\ ~bld.walls_merged
    /\ bld.rooftop_files # {} /\ bld.rooftops_merged
    /\ bld.wall_files \cap meshFiles = {}

\* The descriptor on disk holds the terrain node.
TerrainNodeSaved ==
    \E i \in 1..Len(sceneXml.nodes) : sceneXml.nodes[i].id = "mesh-terrain"

\* C28: the height callback handed to ProcessBuildings and
\* ProcessInfrastructure is non-null exactly when ProcessTerrain committed
\* the terrain node to the saved descriptor: no flat placement in a scene
\* with the elevated terrain, no draping in a scene with the flat ground.
C28_CallbackMatchesTerrainNode ==
    Ran("ProcessBuildings")
        => /\ (heightCb = "sampler") <=> Committed("ProcessTerrain")
           /\ (placed.buildings = "flat" \/ placed.infrastructure = "flat")
                  => ~Committed("ProcessTerrain")
           /\ (placed.buildings = "draped" \/ placed.infrastructure = "draped")
                  => Committed("ProcessTerrain")

\* The terrain node was saved, ground.ply could not be unlinked, and the
\* buildings were merged without a callback.
C28_Witness ==
    /\ Committed("ProcessTerrain")
    /\ TerrainNodeSaved
    /\ heightCb = "null"
    /\ placed.buildings = "flat"

\* -------------------------------------------------------- geometry helpers
\* Every longitude from 180 W to 180 E, in half degrees.
AllLons == -360..360

\* Latitudes in half degrees: the poles, the equator and its two neighbours.
AllLats == {-180, -1, 0, 1, 180}

\* Origins and points of the conversions, in half degrees: both sides of the
\* zone boundary at 12 E (24), of the Greenwich meridian and of the equator.
TripLons == {-24, 0, 22, 24, 26}

TripLats == {-2, 0, 2}

TripPoints == {[lon |-> a, lat |-> b] : a \in TripLons, b \in TripLats}

\* The zone and the hemisphere a code of _get_utm_crs names.
ZoneOf(crs) ==
    CHOOSE z \in 1..61 : \E h \in {"6", "7"} : EpsgCode(h, z) = crs

HemisphereOf(crs) ==
    CHOOSE h \in {"6", "7"} : \E z \in 1..61 : EpsgCode(h, z) = crs

\* The central meridian of a zone, in half degrees (6 * zone - 183 degrees).
CentralMeridian(zone) == 12 * zone - 366

\* rasterio.warp.transform("EPSG:4326", crs, [lon], [lat]): the transverse
\* Mercator projection of the zone, reduced to what the conversions rely on:
\* eastings count from the central meridian of the zone (false easting
\* 500 km), northings from the equator (false northing 10000 km in the
\* south), one half degree taken as 55 km.
WarpToUtm(crs, lon, lat) ==
    [x |-> 500000 + 55000 * (lon - CentralMeridian(ZoneOf(crs))),
     y |-> 55000 * lat + (IF HemisphereOf(crs) = "7" THEN 10000000 ELSE 0)]

\* rasterio.warp.transform(crs, "EPSG:4326", [px], [py])
WarpFromUtm(crs, px, py) ==
    [lon |-> (px - 500000) \div 55000 + CentralMeridian(ZoneOf(crs)),
     lat |-> (py - (IF HemisphereOf(crs) = "7" THEN 10000000 ELSE 0))
                 \div 55000]

\* DemProcessor.global_to_local: the point and the origin projected into the
\* UTM system of the origin, and subtracted.
GlobalToLocal(lon, lat, origin_lon, origin_lat) ==
    LET dst_crs == GetUtmCrs(origin_lon, origin_lat)
        o == WarpToUtm(dst_crs, origin_lon, origin_lat)
        p == WarpToUtm(dst_crs, lon, lat)
    IN  [x |-> p.x - o.x, y |-> p.y - o.y]

\* A conversion back that leaves the origin offset out.
LocalToGlobalNoOffset(x, y, origin_lon, origin_lat) ==
    WarpFromUtm(GetUtmCrs(origin_lon, origin_lat), x, y)

\* DemProcessor.local_to_global
LocalToGlobal(x, y, origin_lon, origin_lat) ==
    LET dst_crs == GetUtmCrs(origin_lon, origin_lat)
        o == WarpToUtm(dst_crs, origin_lon, origin_lat)
        px == x + o.x
        py == y + o.y
    IN  WarpFromUtm(dst_crs, px, py)

\* The coordinates of the boxes polygon_points is called on.
RingCoords == {-2, 0, 1, 3, 5}

RingBoxes ==
    {[min_lon |-> a, min_lat |-> c, max_lon |-> b, max_lat |-> d] :
         a \in RingCoords, b \in RingCoords, c \in RingCoords, d \in RingCoords}

\* BoundingBox.polygon_points
PolygonPoints(b) ==
    << <<b.min_lon, b.min_lat>>,
       <<b.min_lon, b.max_lat>>,
       <<b.max_lon, b.max_lat>>,
       <<b.max_lon, b.min_lat>>,
       <<b.min_lon, b.min_lat>> >>

GeometryInit ==
    /\ UpdaterIdle
    /\ PipelineIdle
    /\ DemIdle
    /\ FramesIdle
    /\ TerrainIdle
    /\ MaterialIdle
    /\ GeometryIdle
    /\ TelecomIdle
    /\ MergeIdle
    /\ BridgeIdle

\* One call of DemProcessor._get_utm_crs(lon, lat).
DoGetUtmCrs ==
    /\ GeometryIdle
    /\ \E lon \in AllLons, lat \in AllLats :
           utm' = [called |-> TRUE, lon |-> lon, lat |-> lat,
                   crs |-> GetUtmCrs(lon, lat)]
    /\ UNCHANGED <<trip, ring>>
    /\ UNCHANGED notGeometryVars

\* global_to_local(lon, lat, origin), then local_to_global on its result.
DoRoundTrip ==
    /\ GeometryIdle
    /\ \E o \in TripPoints, p \in TripPoints :
           LET local == GlobalToLocal(p.lon, p.lat, o.lon, o.lat)
           IN  trip' = [called |-> TRUE, origin |-> o, point |-> p,
                        local |-> local,
                        back |-> LocalToGlobal(local.x, local.y, o.lon, o.lat)]
    /\ UNCHANGED <<utm, ring>>
    /\ UNCHANGED notGeometryVars

\* One call of polygon_points on a bounding box.
DoPolygonPoints ==
    /\ GeometryIdle
    /\ \E b \in RingBoxes :
           ring' = [called |-> TRUE, bbox |-> b, points |-> PolygonPoints(b)]
    /\ UNCHANGED <<utm, trip>>
    /\ UNCHANGED notGeometryVars

GeometryNext == DoGetUtmCrs \/ DoRoundTrip \/ DoPolygonPoints

SpecGeometry == GeometryInit /\ [][GeometryNext]_vars

TwoDigits(n) == (IF n < 10 THEN "0" ELSE "") \o ToString(n)

\* C22: for a longitude in [-180, 180] and a latitude in [-90, 90],
\* _get_utm_crs returns "EPSG:326zz" for a latitude >= 0 and "EPSG:327zz"
\* otherwise, with zz = floor((lon + 180) / 6) + 1 on two digits, and zz is
\* always one of 1..60.
C22_UtmCodeInRange ==
    utm.called
        => \E zz \in 1..60 :
               /\ zz = ((utm.lon + 360) \div 12) + 1
               /\ utm.crs = (IF utm.lat >= 0 THEN "EPSG:326" ELSE "EPSG:327")
                                \o TwoDigits(zz)

\* _get_utm_crs was called with the longitude 180 E.
C22_Witness ==
    /\ utm.called
    /\ utm.lon = 360
    /\ utm.crs = "EPSG:32661"

\* Twice the signed area of a ring (shoelace formula, x = lon, y = lat).
RECURSIVE SignedArea2(_, _)
SignedArea2(pts, i) ==
    IF i >= Len(pts) THEN 0
    ELSE pts[i][1] * pts[i + 1][2] - pts[i + 1][1] * pts[i][2]
             + SignedArea2(pts, i + 1)

Corners(b) ==
    {<<b.min_lon, b.min_lat>>, <<b.max_lon, b.min_lat>>,
     <<b.max_lon, b.max_lat>>, <<b.min_lon, b.max_lat>>}

\* C23: polygon_points of a box with min < max on both axes is a closed ring
\* of five points that visits the four corners once each, in
\* counter-clockwise order (positive signed area).
C23_RingIsCounterClockwise ==
    (ring.called /\ ValidateOk(ring.bbox))
        => /\ Len(ring.points) = 5
           /\ ring.points[1] = ring.points[5]
           /\ {ring.points[i] : i \in 1..4} = Corners(ring.bbox)
           /\ \A i, j \in 1..4 : i # j => ring.points[i] # ring.points[j]
           /\ SignedArea2(ring.points, 1) > 0

\* A closed ring over the four corners of a box with a positive area.
C23_Witness ==
    /\ ring.called
    /\ ValidateOk(ring.bbox)
    /\ Len(ring.points) = 5
    /\ ring.points[1] = ring.points[5]
    /\ {ring.points[i] : i \in 1..4} = Corners(ring.bbox)
    /\ SignedArea2(ring.points, 1) < 0

MaxRows == 3

\* What a row's geometry is: a point, another geometry (its centroid is
\* taken), or no geometry at all.
GeometryKinds == {"Point", "Polygon", "None"}

\* The answers of ox.features_from_bbox: rows with distinct indices.
RowSeqs ==
    UNION {{[i \in 1..n |-> [id |-> i, kind |-> k[i]]] :
                k \in [1..n -> GeometryKinds]} : n \in 0..MaxRows}

\* _get_geometry_center raises for a row without a geometry (geom.geom_type
\* of None).
HasCenter(row) == row.kind # "None"

\* The loop of _process_gdf from row i on: a transmitter is appended for each
\* row until _get_geometry_center raises, which ends the loop.
RECURSIVE ProcessRows(_, _, _)
ProcessRows(gdf_, i, acc) ==
    IF i > Len(gdf_) THEN [transmitters |-> acc, raised |-> FALSE]
    ELSE IF ~HasCenter(gdf_[i]) THEN [transmitters |-> acc, raised |-> TRUE]
    ELSE ProcessRows(gdf_, i + 1, Append(acc, gdf_[i].id))

TelecomInit ==
    /\ UpdaterIdle
    /\ PipelineIdle
    /\ DemIdle
    /\ FramesIdle
    /\ TerrainIdle
    /\ MaterialIdle
    /\ GeometryIdle
    /\ MergeIdle
    /\ BridgeIdle
    /\ rows \in RowSeqs
    /\ transmitters = <<>>
    /\ txMesh = NoTxMesh
    /\ tkpc = "fetch_and_process"
    /\ tkError = FALSE

\* fetch_and_process: features_from_bbox and _process_gdf in one try; any
\* exception is logged and swallowed.
FetchAndProcess ==
    /\ tkpc = "fetch_and_process"
    /\ \E service_ok \in BOOLEAN :
           IF ~service_ok
           THEN /\ tkError' = TRUE
                /\ UNCHANGED transmitters
           ELSE LET r == ProcessRows(rows, 1, transmitters)
                IN  /\ transmitters' = r.transmitters
                    /\ tkError' = r.raised
    /\ tkpc' = "get_mesh"
    /\ UNCHANGED <<rows, txMesh>>
    /\ UNCHANGED notTelecomVars

\* get_mesh: None without transmitters, else one cylinder per transmitter.
GetMesh ==
    /\ tkpc = "get_mesh"
    /\ txMesh' = IF transmitters = <<>>
                 THEN [ret |-> "None", parts |-> <<>>]
                 ELSE [ret |-> "mesh", parts |-> transmitters]
    /\ tkpc' = "done"
    /\ UNCHANGED <<rows, transmitters, tkError>>
    /\ UNCHANGED notTelecomVars

TelecomNext == FetchAndProcess \/ GetMesh

SpecTelecom == TelecomInit /\ [][TelecomNext]_vars

\* C21: a feature without an extractable geometry is skipped alone: every
\* other feature of the answer, before or after it, has a transmitter and its
\* cylinder is in the infrastructure mesh.
C21_BadFeatureSkippedAlone ==
    (tkpc = "done" /\ transmitters # <<>>)
        => \A i \in 1..Len(rows) :
               HasCenter(rows[i])
                   <=> /\ rows[i].id \in Range(transmitters)
                       /\ rows[i].id \in Range(txMesh.parts)

\* A row without geometry between two rows with one: the first has its
\* transmitter and its cylinder.
C21_Witness ==
    /\ tkpc = "done"
    /\ Len(rows) = 3
    /\ HasCenter(rows[1]) /\ ~HasCenter(rows[2]) /\ HasCenter(rows[3])
    /\ rows[1].id \in Range(txMesh.parts)
    /\ rows[3].id \notin Range(transmitters)

\* ------------------------------------------------------------ mesh merging
\* Largest number of files in one call of merge_meshes.
MaxMeshFiles == 2

\* The positions a vertex of an input file can have.
Positions == {"p1", "p2", "p3", "p4"}

\* The vertical offsets a height callback returns.
Heights == {0, 5}

Vertex(pos, dz) == [pos |-> pos, dz |-> dz]

\* The mesh of a single-triangle file: three vertices at distinct positions
\* and one face over them (vertex indices from 1).
Triangle(a, b, c) ==
    [vertices |-> <<Vertex(a, 0), Vertex(b, 0), Vertex(c, 0)>>,
     faces |-> << <<1, 2, 3>> >>]

\* What a file of the mesh directory holds: a triangle, a scene without
\* geometry, or bytes trimesh.load cannot read.
MeshFileContents ==
    {[kind |-> "mesh", mesh |-> Triangle(t[1], t[2], t[3])] :
         t \in {u \in [1..3 -> Positions] :
                    u[1] # u[2] /\ u[1] # u[3] /\ u[2] # u[3]}}
    \cup {[kind |-> "empty_scene", mesh |-> EmptyMesh],
          [kind |-> "corrupt", mesh |-> EmptyMesh]}

MergeInputs ==
    UNION {[1..n -> MeshFileContents] : n \in 0..MaxMeshFiles}

\* _apply_height_offset: the mesh moved up by the callback's height at its
\* centroid (no move for 0).
ApplyHeightOffset(mesh, z_offset) ==
    [mesh EXCEPT !.vertices =
         [i \in 1..Len(mesh.vertices) |->
              Vertex(mesh.vertices[i].pos, mesh.vertices[i].dz + z_offset)]]

\* The loop of merge_meshes over the files from i on: [raised, meshes].
RECURSIVE LoadMeshes(_, _, _, _)
LoadMeshes(files, heights, i, meshes) ==
    IF i > Len(files) THEN [raised |-> FALSE, meshes |-> meshes]
    ELSE IF files[i].kind = "corrupt" THEN [raised |-> TRUE, meshes |-> meshes]
    ELSE IF files[i].kind = "empty_scene"
    THEN LoadMeshes(files, heights, i + 1, meshes)
    ELSE LoadMeshes(files, heights, i + 1,
                    Append(meshes, ApplyHeightOffset(files[i].mesh, heights[i])))

\* Faces appended with the indices they had in their own mesh.
KeepFaces(faces, offset) == faces

\* The faces of a mesh with every index moved by the number of vertices
\* stacked before it.
ShiftFaces(faces, offset) ==
    [f \in 1..Len(faces) |-> [k \in 1..3 |-> faces[f][k] + offset]]

\* trimesh.util.concatenate: the vertex buffers and the face buffers of the
\* meshes stacked in order, no vertex merged.
RECURSIVE Stack(_, _, _)
Stack(meshes, i, acc) ==
    IF i > Len(meshes) THEN acc
    ELSE Stack(meshes, i + 1,
               [vertices |-> acc.vertices \o meshes[i].vertices,
                faces |-> acc.faces
                              \o ShiftFaces(meshes[i].faces, Len(acc.vertices))])

Concatenate(meshes) == Stack(meshes, 1, EmptyMesh)

\* BuildingMesher.merge_meshes(files, output_filename, height_callback);
\* heights[i] is what the callback returns at the centroid of the i-th mesh.
MergeTriangleMeshes(files, callback, heights) ==
    LET res(ret, exported, mesh) ==
            [called |-> TRUE, ret |-> ret, exported |-> exported,
             mesh |-> mesh, callback |-> callback]
        l == LoadMeshes(files, heights, 1, <<>>)
    IN  IF files = <<>> THEN res(FALSE, FALSE, EmptyMesh)
        ELSE IF l.raised THEN res(FALSE, FALSE, EmptyMesh)
        ELSE IF l.meshes = <<>> THEN res(FALSE, FALSE, EmptyMesh)
        ELSE res(TRUE, TRUE, Concatenate(l.meshes))

MergeInit ==
    /\ UpdaterIdle
    /\ PipelineIdle
    /\ DemIdle
    /\ FramesIdle
    /\ TerrainIdle
    /\ MaterialIdle
    /\ GeometryIdle
    /\ TelecomIdle
    /\ BridgeIdle
    /\ mergeFiles \in MergeInputs
    /\ merged = NoMerged

\* One call of merge_meshes, without a height callback or with one.
DoMergeMeshes ==
    /\ ~merged.called
    /\ \/ merged' = MergeTriangleMeshes(
                        mergeFiles, "null", [i \in 1..Len(mergeFiles) |-> 0])
       \/ \E heights \in [1..Len(mergeFiles) -> Heights] :
              merged' = MergeTriangleMeshes(mergeFiles, "sampler", heights)
    /\ UNCHANGED mergeFiles
    /\ UNCHANGED notMergeVars

MergeNext == DoMergeMeshes

SpecMerge == MergeInit /\ [][MergeNext]_vars

\* Every file of the call holds a loadable single-triangle mesh.
AllTriangles ==
    /\ Len(mergeFiles) >= 1
    /\ \A i \in 1..Len(mergeFiles) : mergeFiles[i].kind = "mesh"

\* C24: merge_meshes on N >= 1 loadable single-triangle files returns
\* success and exports one mesh with N triangles and 3N vertices; the i-th
\* triangle's indices are those of the three vertices the i-th file
\* contributed, in its order, and every index is in range.
C24_MergeKeepsTriangles ==
    (merged.called /\ AllTriangles)
        => LET n == Len(mergeFiles)
               out == merged.mesh
           IN  /\ merged.ret /\ merged.exported
               /\ Len(out.faces) = n
               /\ Len(out.vertices) = 3 * n
               /\ \A i \in 1..n : \A k \in 1..3 :
                      /\ out.faces[i][k] = 3 * (i - 1) + k
                      /\ out.faces[i][k] \in 1..Len(out.vertices)
                      /\ out.vertices[out.faces[i][k]].pos
                             = mergeFiles[i].mesh.vertices[k].pos

\* Two triangle files over the same three positions were merged.
C24_Witness ==
    /\ merged.called
    /\ AllTriangles
    /\ Len(mergeFiles) = 2
    /\ {mergeFiles[1].mesh.vertices[k].pos : k \in 1..3}
           = {mergeFiles[2].mesh.vertices[k].pos : k \in 1..3}
    /\ Len(merged.mesh.vertices) = 6

\* ----------------------------------------------------------- bridge service
\* multiprocessing.Queue(maxsize=1)
QueueMaxSize == 1

\* The stop signal stop() puts on the queue.
StopSignal == [stop |-> TRUE, position |-> None, orientation |-> None]

Task(pos, ori) == [stop |-> FALSE, position |-> pos, orientation |-> ori]

\* The payloads of the messages: bytes that are no JSON, JSON that is no
\* object, or an object whose "position" and "orientation" are absent
\* (None), empty, or hold a value.
Messages ==
    {[kind |-> "bad_json", position |-> None, orientation |-> None],
     [kind |-> "not_object", position |-> None, orientation |-> None]}
    \cup {[kind |-> "object", position |-> p, orientation |-> o] :
              p \in {None, EmptyStr, "p1", "p2"}, o \in {None, EmptyStr, "o1"}}

\* A put that appends the item whatever the queue holds.
PutAlways(q, item) == [queue |-> Append(q, item), full |-> FALSE]

\* Queue.put_nowait: queue.Full when maxsize items are waiting to be got.
PutNowait(q, item) ==
    IF Len(q) >= QueueMaxSize
    THEN [queue |-> q, full |-> TRUE]
    ELSE [queue |-> Append(q, item), full |-> FALSE]

\* What _on_message does with a payload: [queue, did].
HandleMessage(q, m) ==
    IF m.kind = "bad_json" THEN [queue |-> q, did |-> "decode_error"]
    ELSE IF m.kind = "not_object" THEN [queue |-> q, did |-> "error"]
    ELSE IF ~Falsy(m.position) /\ ~Falsy(m.orientation)
    THEN LET r == PutNowait(q, Task(m.position, m.orientation))
         IN  [queue |-> r.queue, did |-> IF r.full THEN "dropped" ELSE "queued"]
    ELSE [queue |-> q, did |-> "invalid"]

\* Process.is_alive()
IsAlive(w) == w \in {"init", "waiting", "running", "hung"}

\* BridgeService.start up to loop_forever: the worker process is started and
\* the main process serves the MQTT callbacks.
BridgeInit ==
    /\ UpdaterIdle
    /\ PipelineIdle
    /\ DemIdle
    /\ FramesIdle
    /\ TerrainIdle
    /\ MaterialIdle
    /\ GeometryIdle
    /\ TelecomIdle
    /\ MergeIdle
    /\ task_queue = <<>>
    /\ worker = "init"
    /\ mpc = "loop_forever"
    /\ lastMsg = NoMessage

\* _on_message, called by loop_forever for one message.
OnMessage ==
    /\ mpc = "loop_forever"
    /\ \E m \in Messages :
           LET r == HandleMessage(task_queue, m)
           IN  /\ task_queue' = r.queue
               /\ lastMsg' = [kind |-> m.kind, position |-> m.position,
                              orientation |-> m.orientation, did |-> r.did,
                              before |-> task_queue]
    /\ UNCHANGED <<worker, mpc>>
    /\ UNCHANGED notBridgeVars

\* run_simulation_process, lines 22-27: the simulator is built, or the
\* worker returns.
WorkerInit ==
    /\ worker = "init"
    /\ worker' \in {"waiting", "exited"}
    /\ UNCHANGED <<task_queue, mpc, lastMsg>>
    /\ UNCHANGED notBridgeVars

\* task_queue.get() returns an item: the stop signal ends the loop, a task
\* starts a simulation.
WorkerGet ==
    /\ worker = "waiting"
    /\ task_queue # <<>>
    /\ worker' = IF Head(task_queue).stop THEN "exited" ELSE "running"
    /\ task_queue' = Tail(task_queue)
    /\ UNCHANGED <<mpc, lastMsg>>
    /\ UNCHANGED notBridgeVars

\* run_simulation returns or raises an Exception: back to get().
WorkerFinish ==
    /\ worker = "running"
    /\ worker' = "waiting"
    /\ UNCHANGED <<task_queue, mpc, lastMsg>>
    /\ UNCHANGED notBridgeVars

\* run_simulation never returns.
WorkerHang ==
    /\ worker = "running"
    /\ worker' = "hung"
    /\ UNCHANGED <<task_queue, mpc, lastMsg>>
    /\ UNCHANGED notBridgeVars

\* KeyboardInterrupt in the worker: the loop breaks (lines 48-49), or the
\* construction of the simulator is abandoned.
WorkerInterrupt ==
    /\ worker \in {"init", "waiting", "running"}
    /\ worker' = "exited"
    /\ UNCHANGED <<task_queue, mpc, lastMsg>>
    /\ UNCHANGED notBridgeVars

\* start, lines 113-118, and stop, lines 121-125: loop_forever ends, the
\* MQTT client is stopped and the worker is looked at.
StopBegin ==
    /\ mpc = "loop_forever"
    /\ mpc' = IF IsAlive(worker) THEN "put" ELSE "stopped"
    /\ UNCHANGED <<task_queue, worker, lastMsg>>
    /\ UNCHANGED notBridgeVars

\* stop, line 126: task_queue.put(None) waits, without a timeout, until the
\* queue has room.
StopPut ==
    /\ mpc = "put"
    /\ Len(task_queue) < QueueMaxSize
    /\ task_queue' = Append(task_queue, StopSignal)
    /\ mpc' = "join"
    /\ UNCHANGED <<worker, lastMsg>>
    /\ UNCHANGED notBridgeVars

\* stop, lines 127-135: join returns when the worker has ended or after five
\* seconds; a worker still alive is terminated.
StopJoin ==
    /\ mpc = "join"
    /\ worker' = IF IsAlive(worker) THEN "terminated" ELSE worker
    /\ mpc' = "stopped"
    /\ UNCHANGED <<task_queue, lastMsg>>
    /\ UNCHANGED notBridgeVars

BridgeNext ==
    \/ OnMessage
    \/ WorkerInit
    \/ WorkerGet
    \/ WorkerFinish
    \/ WorkerHang
    \/ WorkerInterrupt
    \/ StopBegin
    \/ StopPut
    \/ StopJoin

SpecBridge == BridgeInit /\ [][BridgeNext]_vars

\* The steps the schedulers of the two processes keep taking: the main
\* process runs stop() on when it can, the worker proceeds unless the
\* simulation hangs.
SpecBridgeFair ==
    /\ SpecBridge
    /\ WF_vars(StopPut)
    /\ WF_vars(StopJoin)
    /\ WF_vars(WorkerInit)
    /\ WF_vars(WorkerGet)
    /\ WF_vars(WorkerFinish)

\* What the last message did agrees with its payload and with the queue it
\* found.
LastMessageHandled ==
    lastMsg.kind # "none"
        => /\ lastMsg.did = "queued"
                  => /\ lastMsg.kind = "object"
                     /\ ~Falsy(lastMsg.position) /\ ~Falsy(lastMsg.orientation)
                     /\ lastMsg.before = <<>>
           /\ (lastMsg.kind = "object" /\ ~Falsy(lastMsg.position)
                   /\ ~Falsy(lastMsg.orientation) /\ lastMsg.before # <<>>)
                  => lastMsg.did = "dropped"
           /\ (lastMsg.kind # "object" \/ Falsy(lastMsg.position)
                   \/ Falsy(lastMsg.orientation))
                  => lastMsg.did \in {"invalid", "decode_error", "error"}

C30_StopCompletes ==
    (mpc = "put") ~> (mpc = "stopped" /\ ~IsAlive(worker))

\* stop() waits in put(None): a task is waiting in the queue and the worker
\* is in a simulation that does not return.
C30_Witness ==
    /\ mpc = "put"
    /\ Len(task_queue) = QueueMaxSize
    /\ worker = "hung"

====
